---- MODULE Spec2Model ----
(***************************************************************************)
(* A model of the publish/subscribe synchronisation layer of sr.robot3:    *)
(*   - MQTTClient            (src/sr/robot3/mqtt.py)                        *)
(*   - GetMetadataConsumer   (src/sr/robot3/astoria.py)                     *)
(*   - BroadcastHelper and WaitForStartButtonBroadcastConsumer             *)
(*                           (src/sr/robot3/astoria.py)                     *)
(*   - Robot.wait_start      (src/sr/robot3/robot.py)                       *)
(* The application thread and the paho I/O thread are interleaved, one     *)
(* action per statement that touches shared state.                         *)
(***************************************************************************)
EXTENDS Naturals, Integers, Sequences, FiniteSets, TLC

VARIABLES
    \* ---- MQTTClient and the paho client / broker it wraps
    topic_prefix,     \* MQTTClient.topic_prefix (NoPrefix for Python None)
    subscriptions,    \* MQTTClient.subscriptions : full topic -> callback
    callbacks,        \* paho's message callback registry : topic filter -> callback
    brokerSubs,       \* topics the broker holds for the current session
    connState,        \* "new" | "connecting" | "connected" | "dropped"
    loopRunning,      \* paho's background I/O loop thread is alive
    atexitRegs,       \* registrations of MQTTClient.disconnect with atexit
    sent,             \* <<topic, payload>> pairs the broker has received
    outQueue,         \* messages paho holds for a later connection
    ioRaised,         \* exception that escaped a callback on the I/O thread
    brokerUp,         \* the broker is reachable at all
    lastConnect,      \* ghost: None | "first" | "reconnect", the last _on_connect
    \* ---- the application thread driving the client API (Spec)
    opCount,          \* API calls made so far
    raised,           \* exception the last application call raised, or None
    lastOp,           \* ghost: the last API call (its topic, or for connect the
                      \*        outcome of paho's connect), the connection state
                      \*        and the tracked subscriptions it found
    \* ---- GetMetadataConsumer.get_metadata
    gmPc,             \* position of the application thread in get_metadata/run
    metadata_message, \* gmc._metadata_message
    proc_message,     \* gmc._proc_message
    astmetad_received,\* gmc._astmetad_received (threading.Event)
    astprocd_received,\* gmc._astprocd_received (threading.Event)
    waitLeft,         \* ticks left of the current Event.wait(timeout_step)
    elapsed,          \* ticks spent waiting in run so far
    metadata_received,\* run's return value
    gmResult,         \* get_metadata's return value [metadata, path]
    subsBefore,       \* ghost: subscriptions when get_metadata was called
    seen,             \* ghost: payloads each handler was called with in this fetch
    twin,             \* ghost: the same consumer fed the same messages minus
                      \*        the non-RUNNING status messages
    msgCount,         \* messages the broker delivered so far
    fetchNo,          \* which GetMetadataConsumer object the fetch uses
    \* ---- Robot.wait_start
    wsPc,             \* position of the application thread in wait_start
    start_event,      \* the shared threading.Event
    trigger_event,    \* astoria_start._trigger_event holds the BroadcastHelper
    helperDeleted,    \* BroadcastHelper.__del__ has run
    eventQueue,       \* BroadcastHelper._event_queue
    buttonLatch,      \* power board: start button pressed since it was last read
    counter,          \* wait_start's loop counter (mod 6)
    led_state,        \* wait_start's led_state
    runLed,           \* power_board._run_led.state
    kchStart,         \* kch.start
    exitBy,           \* ghost: what the loop condition saw when it exited
    sleepsAfterTrigger, \* ghost: sleeps begun after the start event was set
    killTimer,        \* the alarm kill_after_delay armed
    \* ---- an application thread using the consumer and its helper directly
    wbPc,             \* "idle" | "get" (in wait_broadcast) | "run" (in consumer.run)
    wbTimed,          \* wait_broadcast was given a timeout (FALSE for None)
    wbLeft,           \* ticks left of that timeout
    wbResult,         \* what the last wait_broadcast returned, or NoEvent
    wbRaised,         \* what the last wait_broadcast raised, or None
    wbCalls,          \* calls of wait_broadcast and run made so far
    wbSaw,            \* ghost: the queue as the last returning get found it
    pending,          \* ghost: the queued events in the order they were inserted
    evCount,          \* broadcast messages delivered to the helper so far
    \* ---- _on_connect running statement by statement on the I/O thread
    ocPc,             \* "idle" | "next" (at the for statement) | "sub" (in its body)
    ocSize,           \* len(subscriptions) when the iterator was made
    ocDone,           \* the keys the iterator has yielded
    ocItem,           \* the (topic, callback) pair the loop body holds
    \* ---- KCHDaemonConsumer.get_kch (its own astoria consumer and connection)
    kchPc,            \* "idle" | "wait" (in run, under wait_for) | "done"
    kch_info,         \* KCHDaemonConsumer._kch_info
    kchHalted,        \* halt() was called on the consumer
    kchRaised,        \* what the last _handle_kchd_message call raised, or None
    kchLeft,          \* ticks left of asyncio.wait_for's timeout
    kchResult,        \* what get_kch returned
    kchLast,          \* ghost: the payload of the last kchd message
    kchMsgs,          \* kchd messages delivered so far
    \* ---- a GetMetadataConsumer handler running statement by statement
    hsPc,             \* "idle" | "second" (between lines 77 and 78, or 97 and 98)
    hsC,              \* the consumer as the handler will leave it
    \* ---- several application threads in wait_broadcast of one helper
    wtPc,             \* per thread: "idle" | "get" (inside Queue.get)
    wtGot,            \* ghost, per thread: the events its calls returned
    wtPut             \* ghost: the events _handle_broadcast has put, in order

clientVars == <<topic_prefix, subscriptions, callbacks, brokerSubs, connState,
                loopRunning, atexitRegs, sent, outQueue, ioRaised, brokerUp,
                lastConnect>>
appVars == <<opCount, raised, lastOp>>
gmcVars == <<gmPc, metadata_message, proc_message, astmetad_received,
             astprocd_received, waitLeft, elapsed, metadata_received, gmResult,
             subsBefore, seen, twin, msgCount, fetchNo>>
wsVars == <<wsPc, start_event, trigger_event, helperDeleted, eventQueue,
            buttonLatch, counter, led_state, runLed, kchStart, exitBy,
            sleepsAfterTrigger, killTimer>>
wbVars == <<wbPc, wbTimed, wbLeft, wbResult, wbRaised, wbCalls, wbSaw, pending,
            evCount>>
ocVars == <<ocPc, ocSize, ocDone, ocItem>>
kchVars == <<kchPc, kch_info, kchHalted, kchRaised, kchLeft, kchResult, kchLast,
             kchMsgs>>
hsVars == <<hsPc, hsC>>
wtVars == <<wtPc, wtGot, wtPut>>
vars == <<clientVars, appVars, gmcVars, wsVars, wbVars, ocVars, kchVars, hsVars,
          wtVars>>

----------------------------------------------------------------------------
\* Bounds of the model

\* API calls the application thread makes in Spec
MaxOps == 3
\* messages the broker delivers in one behaviour
MaxMsgs == 2
\* ticks of one Event.wait(timeout_step): the granularity of the clock
StepTicks == 1
\* broadcast messages delivered to one BroadcastHelper in SpecBroadcast
MaxEvents == 3
\* calls of wait_broadcast and of the consumer's run in SpecBroadcast
MaxWaits == 3

----------------------------------------------------------------------------
\* Values

None == "<None>"
NoPrefix == "<no prefix>"
Prefixes == {NoPrefix, "", "sr"}

EmptyMap == [t \in {} |-> None]
Put(m, k, v) == [t \in (DOMAIN m) \cup {k} |-> IF t = k THEN v ELSE m[t]]
Del(m, k) == [t \in (DOMAIN m) \ {k} |-> m[t]]

----------------------------------------------------------------------------
\* MQTTClient (src/sr/robot3/mqtt.py)

\* paho: Client.is_connected()
IsConnected == connState = "connected"

\* paho writes a packet to the broker only on a completed connection whose
\* loop thread is alive
CanSend == connState = "connected" /\ loopRunning

\* subscribe testing the prefix for truth, as publish does on line 132
FullTopicIfTruthy(topic, override_prefix) ==
    IF ~override_prefix /\ topic_prefix \notin {NoPrefix, ""}
    THEN topic_prefix \o "/" \o topic
    ELSE topic

\* subscribe, lines 91-94: the topic the subscription is tracked under
FullTopic(topic, override_prefix) ==
    IF ~override_prefix /\ topic_prefix # NoPrefix
    THEN topic_prefix \o "/" \o topic
    ELSE topic

\* publish, lines 132-133: the topic a message is published to
PublishTopic(topic, auto_prefix_topic) ==
    IF auto_prefix_topic /\ topic_prefix \notin {NoPrefix, ""}
    THEN topic_prefix \o "/" \o topic
    ELSE topic

\* _subscribe, lines 104-106: the callback is registered with paho and a
\* SUBSCRIBE is sent; paho sends nothing without a connection.
SubscribeInner(st, topic, callback) ==
    [connected  |-> st.connected,
     callbacks  |-> Put(st.callbacks, topic, callback),
     brokerSubs |-> IF st.connected THEN st.brokerSubs \cup {topic}
                    ELSE st.brokerSubs]

\* The part of the paho client _subscribe acts on
PahoState(conn) ==
    [connected |-> conn, callbacks |-> callbacks, brokerSubs |-> brokerSubs]

\* subscribe keeping the callback a topic is already tracked with
SubscribeKeepsFirst(topic, callback, override_prefix) ==
    LET full == FullTopic(topic, override_prefix)
        kept == IF full \in DOMAIN subscriptions THEN subscriptions[full]
                ELSE callback
        st == SubscribeInner(PahoState(CanSend), full, kept)
    IN /\ subscriptions' = Put(subscriptions, full, kept)
       /\ raised' = None
       /\ callbacks' = st.callbacks
       /\ brokerSubs' = st.brokerSubs
       /\ UNCHANGED <<topic_prefix, connState, loopRunning, atexitRegs, sent,
                      outQueue, ioRaised, brokerUp, lastConnect>>

\* subscribe tracking the topic only when the SUBSCRIBE could be sent
SubscribeTracksWhenConnected(topic, callback, override_prefix) ==
    LET full == FullTopic(topic, override_prefix)
        st == SubscribeInner(PahoState(CanSend), full, callback)
    IN /\ subscriptions' = IF CanSend THEN Put(subscriptions, full, callback)
                           ELSE subscriptions
       /\ raised' = None
       /\ callbacks' = st.callbacks
       /\ brokerSubs' = st.brokerSubs
       /\ UNCHANGED <<topic_prefix, connState, loopRunning, atexitRegs, sent,
                      outQueue, ioRaised, brokerUp, lastConnect>>

\* subscribe, lines 84-97
Subscribe(topic, callback, override_prefix) ==
    LET full == FullTopic(topic, override_prefix)
        st == SubscribeInner(PahoState(CanSend), full, callback)
    IN /\ subscriptions' = Put(subscriptions, full, callback)
       /\ raised' = None
       /\ callbacks' = st.callbacks
       /\ brokerSubs' = st.brokerSubs
       /\ UNCHANGED <<topic_prefix, connState, loopRunning, atexitRegs, sent,
                      outQueue, ioRaised, brokerUp,
                   lastConnect>>

\* unsubscribe without the except KeyError of lines 112-113
UnsubscribeStrict(topic) ==
    /\ IF topic \in DOMAIN subscriptions
       THEN /\ subscriptions' = Del(subscriptions, topic)
            /\ raised' = None
            /\ callbacks' = Del(callbacks, topic)
            /\ brokerSubs' = IF CanSend THEN brokerSubs \ {topic} ELSE brokerSubs
       ELSE /\ raised' = "KeyError"
            /\ UNCHANGED <<subscriptions, callbacks, brokerSubs>>
    /\ UNCHANGED <<topic_prefix, connState, loopRunning, atexitRegs, sent,
                   outQueue, ioRaised, brokerUp, lastConnect>>

\* unsubscribe, lines 108-115: the topic is used as given, a missing key is
\* ignored, the paho callback is removed and an UNSUBSCRIBE is sent.
Unsubscribe(topic) ==
    /\ subscriptions' = Del(subscriptions, topic)
    /\ raised' = None
    /\ callbacks' = Del(callbacks, topic)
    /\ brokerSubs' = IF CanSend THEN brokerSubs \ {topic} ELSE brokerSubs
    /\ UNCHANGED <<topic_prefix, connState, loopRunning, atexitRegs, sent,
                   outQueue, ioRaised, brokerUp,
                   lastConnect>>

\* paho Client.publish(topic, payload, qos=1) as called on line 135: sent when
\* connected, otherwise kept by paho for the next connection (qos > 0).
PahoPublish(topic, payload) ==
    IF CanSend
    THEN /\ sent' = sent \cup {<<topic, payload>>}
         /\ UNCHANGED outQueue
    ELSE /\ outQueue' = Append(outQueue, <<topic, payload>>)
         /\ UNCHANGED sent

\* paho raises ValueError for a topic that holds a wildcard
ValidPublishTopic(topic) == topic \notin {"bad/#", "sr/bad/#"}

\* publish without the is_connected() guard of lines 126-130
PublishUnguarded(topic, payload, auto_prefix_topic) ==
    /\ IF ValidPublishTopic(PublishTopic(topic, auto_prefix_topic))
       THEN /\ PahoPublish(PublishTopic(topic, auto_prefix_topic), payload)
            /\ raised' = None
       ELSE /\ UNCHANGED <<sent, outQueue>>
            /\ raised' = "ValueError"
    /\ UNCHANGED <<topic_prefix, subscriptions, callbacks, brokerSubs, connState,
                   loopRunning, atexitRegs, ioRaised, brokerUp, lastConnect>>

\* publish, lines 117-137
Publish(topic, payload, auto_prefix_topic) ==
    /\ IF ~IsConnected
       THEN /\ UNCHANGED <<sent, outQueue>>
            /\ raised' = None
       ELSE IF ValidPublishTopic(PublishTopic(topic, auto_prefix_topic))
            THEN /\ PahoPublish(PublishTopic(topic, auto_prefix_topic), payload)
                 /\ raised' = None
            ELSE /\ UNCHANGED <<sent, outQueue>>
                 /\ raised' = "ValueError"
    /\ UNCHANGED <<topic_prefix, subscriptions, callbacks, brokerSubs, connState,
                   loopRunning, atexitRegs, ioRaised, brokerUp,
                   lastConnect>>

\* The outcomes of paho's Client.connect(host, port): the CONNECT was sent, or
\* one of the exceptions socket creation raises.
ConnectOutcomes ==
    {"ok", "ConnectionRefusedError", "TimeoutError", "ValueError", "OSError"}
\* connect, line 63: the exceptions that are caught and logged
ConnectCaught == {"ConnectionRefusedError", "TimeoutError", "ValueError"}

\* connect without the is_connected() guard of lines 57-59
ConnectUnguarded(outcome) ==
    /\ IF outcome = "ok"
       THEN /\ connState' = "connecting"
            /\ loopRunning' = TRUE
            /\ atexitRegs' = atexitRegs + 1
       ELSE UNCHANGED <<connState, loopRunning, atexitRegs>>
    /\ raised' = IF outcome = "ok" \/ outcome \in ConnectCaught
                 THEN None ELSE outcome
    /\ UNCHANGED <<topic_prefix, subscriptions, callbacks, brokerSubs, sent,
                   outQueue, ioRaised, brokerUp, lastConnect>>

\* connect starting the loop and registering the exit handler (lines 66-67)
\* after a failed attempt as well
ConnectStartsLoopAnyway(outcome) ==
    /\ IF IsConnected
       THEN UNCHANGED <<connState, loopRunning, atexitRegs>>
       ELSE /\ connState' = IF outcome = "ok" THEN "connecting" ELSE connState
            /\ loopRunning' = TRUE
            /\ atexitRegs' = atexitRegs + 1
    /\ raised' = IF IsConnected \/ outcome = "ok" \/ outcome \in ConnectCaught
                 THEN None ELSE outcome
    /\ UNCHANGED <<topic_prefix, subscriptions, callbacks, brokerSubs, sent,
                   outQueue, ioRaised, brokerUp, lastConnect>>

\* connect, lines 51-67; the exception it lets through, or None
Connect(outcome) ==
    /\ IF IsConnected
       THEN UNCHANGED <<connState, loopRunning, atexitRegs>>
       ELSE IF outcome = "ok"
            THEN /\ connState' = "connecting"
                 /\ loopRunning' = TRUE
                 /\ atexitRegs' = atexitRegs + 1
            ELSE UNCHANGED <<connState, loopRunning, atexitRegs>>
    /\ raised' = IF IsConnected \/ outcome = "ok" \/ outcome \in ConnectCaught
                 THEN None ELSE outcome
    /\ UNCHANGED <<topic_prefix, subscriptions, callbacks, brokerSubs, sent,
                   outQueue, ioRaised, brokerUp,
                   lastConnect>>

\* disconnect, lines 78-82
Disconnect ==
    /\ connState' = "new"
    /\ raised' = None
    /\ loopRunning' = FALSE
    /\ atexitRegs' = 0
    /\ brokerSubs' = {}
    /\ UNCHANGED <<topic_prefix, subscriptions, callbacks, sent, outQueue,
                   ioRaised, brokerUp,
                   lastConnect>>

\* _on_connect leaving its loop after the first topic
ResubscribeFirstOnly(st, topics) ==
    IF topics = {} THEN st
    ELSE LET t == CHOOSE x \in topics : TRUE
         IN SubscribeInner(st, t, subscriptions[t])

\* _on_connect, lines 139-144: the loop over subscriptions.items()
RECURSIVE ResubscribeAll(_, _)
ResubscribeAll(st, topics) ==
    IF topics = {} THEN st
    ELSE LET t == CHOOSE x \in topics : TRUE
         IN ResubscribeAll(SubscribeInner(st, t, subscriptions[t]), topics \ {t})

\* The I/O thread completes a connection (CONNACK) and paho calls _on_connect;
\* paho then sends what it queued while there was no connection.
OnConnect ==
    /\ connState \in {"connecting", "dropped"}
    /\ loopRunning
    /\ brokerUp
    /\ connState' = "connected"
    /\ lastConnect' = IF connState = "dropped" THEN "reconnect" ELSE "first"
    /\ LET st == ResubscribeAll(PahoState(TRUE), DOMAIN subscriptions)
       IN /\ callbacks' = st.callbacks
          /\ brokerSubs' = st.brokerSubs
    /\ sent' = sent \cup {outQueue[i] : i \in DOMAIN outQueue}
    /\ outQueue' = <<>>
    /\ UNCHANGED <<topic_prefix, subscriptions, loopRunning, atexitRegs, ioRaised,
                   brokerUp>>

\* The connection is lost; the broker forgets the session's subscriptions and
\* paho's loop will reconnect.
Drop ==
    /\ connState = "connected"
    /\ connState' = "dropped"
    /\ brokerSubs' = {}
    /\ UNCHANGED <<topic_prefix, subscriptions, callbacks, loopRunning, atexitRegs,
                   sent, outQueue, ioRaised, brokerUp,
                   lastConnect>>

----------------------------------------------------------------------------
\* Payloads and their decoding (json.loads, pydantic.parse_obj_as)

\* What a broker message may hold:
\*   "badutf8"        bytes that are no UTF-8 text
\*   "badjson"        text that is no JSON document
\*   "invalid"        JSON that does not fit the schema
\*   "stopped"        a status message whose status is not RUNNING
\*   "running1/2"     RUNNING status messages with different contents
\*   "running_nodisk" a RUNNING status message without disk_info
Payloads == {"badutf8", "badjson", "invalid", "stopped", "running1", "running2",
             "running_nodisk"}

NotJson == {"badutf8", "badjson"}
NotRunningStatus == {"stopped"}

\* json.loads(msg.payload): the exception it raises, or None
LoadsError(payload) ==
    CASE payload = "badutf8" -> "UnicodeDecodeError"
      [] payload = "badjson" -> "JSONDecodeError"
      [] OTHER -> None

\* parse_obj_as(schema, obj): the exception it raises, or None
ParseError(payload) == IF payload = "invalid" THEN "ValidationError" ELSE None

NoMessage == [status |-> None, metadata |-> None, disk_info |-> None]

\* The message object parse_obj_as builds from a payload that fits the schema
Parsed(payload) ==
    CASE payload = "stopped" ->
            [status |-> "STOPPED", metadata |-> "md0", disk_info |-> None]
      [] payload = "running1" ->
            [status |-> "RUNNING", metadata |-> "md1", disk_info |-> "/media/usb1"]
      [] payload = "running2" ->
            [status |-> "RUNNING", metadata |-> "md2", disk_info |-> "/media/usb2"]
      [] payload = "running_nodisk" ->
            [status |-> "RUNNING", metadata |-> "md3", disk_info |-> None]
      [] OTHER -> NoMessage

----------------------------------------------------------------------------
\* GetMetadataConsumer (src/sr/robot3/astoria.py)

\* get_metadata, line 116: run(timeout=0.1), in ticks; run, line 53
TimeoutTicks == 2 * StepTicks
TimeoutStep == TimeoutTicks \div 2

\* get_metadata, lines 112-113
DefaultMetadata == "Metadata.init(config)"
DefaultPath == "/dev/null"

\* The consumer's fields: the stored message and completion event of each topic
\* c = [metadata_message, proc_message, astmetad_received, astprocd_received]

\* _handle_astmetad_message signalling completion from its JSONDecodeError
\* branch as well
HandleAstmetadSetsOnBadJson(c, payload) ==
    IF LoadsError(payload) = "JSONDecodeError"
    THEN [c |-> [c EXCEPT !.astmetad_received = TRUE], exc |-> None]
    ELSE IF LoadsError(payload) # None THEN [c |-> c, exc |-> LoadsError(payload)]
    ELSE IF ParseError(payload) = "ValidationError" THEN [c |-> c, exc |-> None]
    ELSE IF Parsed(payload).status = "RUNNING"
         THEN [c |-> [c EXCEPT !.metadata_message = Parsed(payload),
                               !.astmetad_received = TRUE],
               exc |-> None]
         ELSE [c |-> c, exc |-> None]

\* _handle_astmetad_message, lines 66-84: the consumer after the call and the
\* exception the handler lets through
HandleAstmetad(c, payload) ==
    IF LoadsError(payload) = "JSONDecodeError" THEN [c |-> c, exc |-> None]
    ELSE IF LoadsError(payload) # None THEN [c |-> c, exc |-> LoadsError(payload)]
    ELSE IF ParseError(payload) = "ValidationError" THEN [c |-> c, exc |-> None]
    ELSE IF Parsed(payload).status = "RUNNING"
         THEN [c |-> [c EXCEPT !.metadata_message = Parsed(payload),
                               !.astmetad_received = TRUE],
               exc |-> None]
         ELSE [c |-> c, exc |-> None]

\* _handle_astprocd_message without the status check of line 95
HandleAstprocdAnyStatus(c, payload) ==
    IF LoadsError(payload) = "JSONDecodeError" THEN [c |-> c, exc |-> None]
    ELSE IF LoadsError(payload) # None THEN [c |-> c, exc |-> LoadsError(payload)]
    ELSE IF ParseError(payload) = "ValidationError" THEN [c |-> c, exc |-> None]
    ELSE [c |-> [c EXCEPT !.proc_message = Parsed(payload),
                          !.astprocd_received = TRUE],
          exc |-> None]

\* _handle_astprocd_message, lines 86-104
HandleAstprocd(c, payload) ==
    IF LoadsError(payload) = "JSONDecodeError" THEN [c |-> c, exc |-> None]
    ELSE IF LoadsError(payload) # None THEN [c |-> c, exc |-> LoadsError(payload)]
    ELSE IF ParseError(payload) = "ValidationError" THEN [c |-> c, exc |-> None]
    ELSE IF Parsed(payload).status = "RUNNING"
         THEN [c |-> [c EXCEPT !.proc_message = Parsed(payload),
                               !.astprocd_received = TRUE],
               exc |-> None]
         ELSE [c |-> c, exc |-> None]

\* get_metadata using the stored messages without looking at run's result
BuildResultIgnoresTimeout(received, c) ==
    [metadata |-> IF c.metadata_message # NoMessage
                  THEN c.metadata_message.metadata
                  ELSE DefaultMetadata,
     path     |-> IF c.proc_message # NoMessage
                     /\ c.proc_message.disk_info # None
                  THEN c.proc_message.disk_info
                  ELSE DefaultPath]

\* get_metadata, lines 117-128: the result built from run's return value and
\* the consumer's stored messages
BuildResult(received, c) ==
    [metadata |-> IF received /\ c.metadata_message # NoMessage
                  THEN c.metadata_message.metadata
                  ELSE DefaultMetadata,
     path     |-> IF received /\ c.proc_message # NoMessage
                              /\ c.proc_message.disk_info # None
                  THEN c.proc_message.disk_info
                  ELSE DefaultPath]

\* The consumer object of the running fetch
Consumer ==
    [metadata_message |-> metadata_message, proc_message |-> proc_message,
     astmetad_received |-> astmetad_received,
     astprocd_received |-> astprocd_received]

\* __init__, lines 39-46
NewConsumer ==
    [metadata_message |-> NoMessage, proc_message |-> NoMessage,
     astmetad_received |-> FALSE, astprocd_received |-> FALSE]

NoResult == [metadata |-> None, path |-> None]

\* ghost: the payloads each handler was called with during the fetch ("all")
\* and, of those, the ones that came before run's last wait returned ("budget")
NothingSeen == [t \in {"astmetad", "astprocd"} |-> [all |-> {}, budget |-> {}]]
NewTwin == [c |-> NewConsumer, metadata_received |-> FALSE, result |-> NoResult]

\* A callback: a bound method of the n-th object of its class
Callback(owner, n, handler) == [owner |-> owner, n |-> n, handler |-> handler]

\* get_metadata, lines 109-113: a new consumer; the ghosts start over
GmcCall ==
    /\ gmPc = "idle"
    /\ gmPc' = "sub_astmetad"
    /\ fetchNo' = fetchNo + 1
    /\ metadata_message' = NewConsumer.metadata_message
    /\ proc_message' = NewConsumer.proc_message
    /\ astmetad_received' = NewConsumer.astmetad_received
    /\ astprocd_received' = NewConsumer.astprocd_received
    /\ elapsed' = 0
    /\ metadata_received' = FALSE
    /\ gmResult' = NoResult
    /\ subsBefore' = subscriptions
    /\ seen' = NothingSeen
    /\ twin' = NewTwin
    /\ UNCHANGED <<waitLeft, msgCount, clientVars, appVars>>

\* run, line 50
GmcSubscribeAstmetad ==
    /\ gmPc = "sub_astmetad"
    /\ gmPc' = "sub_astprocd"
    /\ Subscribe("astmetad", Callback("gmc", fetchNo, "astmetad"), FALSE)
    /\ UNCHANGED <<metadata_message, proc_message, astmetad_received,
                   astprocd_received, waitLeft, elapsed, metadata_received, gmResult,
                   subsBefore, seen, twin, msgCount, fetchNo, opCount, lastOp>>

\* run, lines 51-53
GmcSubscribeAstprocd ==
    /\ gmPc = "sub_astprocd"
    /\ gmPc' = "wait_astmetad"
    /\ Subscribe("astprocd", Callback("gmc", fetchNo, "astprocd"), FALSE)
    /\ waitLeft' = TimeoutStep
    /\ UNCHANGED <<metadata_message, proc_message, astmetad_received,
                   astprocd_received, elapsed, metadata_received, gmResult,
                   subsBefore, seen, twin, msgCount, fetchNo, opCount, lastOp>>

\* Event.wait(timeout): time passes while the event is not set
GmcTick ==
    /\ \/ gmPc = "wait_astmetad" /\ ~astmetad_received
       \/ gmPc = "wait_astprocd" /\ ~astprocd_received
    /\ waitLeft > 0
    /\ waitLeft' = waitLeft - 1
    /\ elapsed' = elapsed + 1
    /\ UNCHANGED <<gmPc, metadata_message, proc_message, astmetad_received,
                   astprocd_received, metadata_received, gmResult, subsBefore,
                   seen, twin, msgCount, fetchNo, clientVars, appVars>>

\* run giving the whole timeout to each of its two waits
GmcWaitAstmetadFullTimeout ==
    /\ gmPc = "wait_astmetad"
    /\ astmetad_received \/ waitLeft = 0
    /\ gmPc' = "wait_astprocd"
    /\ waitLeft' = TimeoutTicks
    /\ UNCHANGED <<metadata_message, proc_message, astmetad_received,
                   astprocd_received, elapsed, metadata_received, gmResult,
                   subsBefore, seen, twin, msgCount, fetchNo, clientVars, appVars>>

\* run, line 58: the first wait returns, its result is dropped
GmcWaitAstmetad ==
    /\ gmPc = "wait_astmetad"
    /\ astmetad_received \/ waitLeft = 0
    /\ gmPc' = "wait_astprocd"
    /\ waitLeft' = TimeoutStep
    /\ UNCHANGED <<metadata_message, proc_message, astmetad_received,
                   astprocd_received, elapsed, metadata_received, gmResult,
                   subsBefore, seen, twin, msgCount, fetchNo, clientVars, appVars>>

\* run, line 59 waiting without a timeout
GmcWaitAstprocdForever ==
    /\ gmPc = "wait_astprocd"
    /\ astprocd_received
    /\ gmPc' = "unsub_astmetad"
    /\ waitLeft' = 0
    /\ metadata_received' = astprocd_received
    /\ twin' = [twin EXCEPT !.metadata_received = twin.c.astprocd_received]
    /\ UNCHANGED <<metadata_message, proc_message, astmetad_received,
                   astprocd_received, elapsed, gmResult, subsBefore, seen,
                   msgCount, fetchNo, clientVars, appVars>>

\* run, line 59: the second wait returns the state of the astprocd event
GmcWaitAstprocd ==
    /\ gmPc = "wait_astprocd"
    /\ astprocd_received \/ waitLeft = 0
    /\ gmPc' = "unsub_astmetad"
    /\ waitLeft' = 0
    /\ metadata_received' = astprocd_received
    /\ twin' = [twin EXCEPT !.metadata_received = twin.c.astprocd_received]
    /\ UNCHANGED <<metadata_message, proc_message, astmetad_received,
                   astprocd_received, elapsed, gmResult, subsBefore, seen,
                   msgCount, fetchNo, clientVars, appVars>>

\* run, line 61
GmcUnsubscribeAstmetad ==
    /\ gmPc = "unsub_astmetad"
    /\ gmPc' = "unsub_astprocd"
    /\ Unsubscribe("astmetad")
    /\ UNCHANGED <<metadata_message, proc_message, astmetad_received,
                   astprocd_received, waitLeft, elapsed, metadata_received, gmResult,
                   subsBefore, seen, twin, msgCount, fetchNo, opCount, lastOp>>

\* run, lines 62-64
GmcUnsubscribeAstprocd ==
    /\ gmPc = "unsub_astprocd"
    /\ gmPc' = "ran"
    /\ Unsubscribe("astprocd")
    /\ UNCHANGED <<metadata_message, proc_message, astmetad_received,
                   astprocd_received, waitLeft, elapsed, metadata_received, gmResult,
                   subsBefore, seen, twin, msgCount, fetchNo, opCount, lastOp>>

\* get_metadata, lines 117-128
GmcReturn ==
    /\ gmPc = "ran"
    /\ gmPc' = "done"
    /\ gmResult' = BuildResult(metadata_received, Consumer)
    /\ twin' = [twin EXCEPT !.result = BuildResult(twin.metadata_received, twin.c)]
    /\ UNCHANGED <<metadata_message, proc_message, astmetad_received,
                   astprocd_received, waitLeft, elapsed, metadata_received,
                   subsBefore, seen, msgCount, fetchNo, clientVars, appVars>>

\* The steps of one GetMetadataConsumer.get_metadata call
GmcStep ==
    \/ GmcCall
    \/ GmcSubscribeAstmetad
    \/ GmcSubscribeAstprocd
    \/ GmcTick
    \/ GmcWaitAstmetad
    \/ GmcWaitAstprocd
    \/ GmcUnsubscribeAstmetad
    \/ GmcUnsubscribeAstprocd
    \/ GmcReturn

\* The fetch is between its call and its return
Fetching == gmPc \notin {"idle", "done"}
\* run has subscribed and its last wait has not returned
InBudget == gmPc \in {"sub_astprocd", "wait_astmetad", "wait_astprocd"}

Saw(t, payload) ==
    IF ~Fetching THEN seen
    ELSE [seen EXCEPT ![t] = [all |-> @.all \cup {payload},
                              budget |-> IF InBudget THEN @.budget \cup {payload}
                                         ELSE @.budget]]

\* paho's loop thread calls the callback registered for the topic of a message
\* the broker sends; an exception the callback lets through ends the thread.
Registered(topic, owner, handler) ==
    /\ connState = "connected"
    /\ loopRunning
    /\ topic \in brokerSubs
    /\ topic \in DOMAIN callbacks
    /\ callbacks[topic].owner = owner
    /\ callbacks[topic].handler = handler

Dispatchable(topic, owner, handler) ==
    /\ msgCount < MaxMsgs
    /\ Registered(topic, owner, handler)

IoRaise(exc) ==
    /\ ioRaised' = IF exc # None THEN exc ELSE ioRaised
    /\ loopRunning' = (exc = None)
    /\ UNCHANGED <<topic_prefix, subscriptions, callbacks, brokerSubs, connState,
                   atexitRegs, sent, outQueue, brokerUp, lastConnect>>

\* A message reaches _handle_astmetad_message of the consumer that registered
\* it; the twin is not shown the status messages that are not RUNNING.
DeliverAstmetad(from) ==
    \E topic \in brokerSubs, payload \in from :
        /\ Dispatchable(topic, "gmc", "astmetad")
        /\ msgCount' = msgCount + 1
        /\ IF callbacks[topic].n = fetchNo
           THEN LET r == HandleAstmetad(Consumer, payload)
                IN /\ metadata_message' = r.c.metadata_message
                   /\ astmetad_received' = r.c.astmetad_received
                   /\ IoRaise(r.exc)
                   /\ seen' = Saw("astmetad", payload)
                   /\ twin' = IF payload \in NotRunningStatus THEN twin
                              ELSE [twin EXCEPT
                                      !.c = HandleAstmetad(twin.c, payload).c]
           ELSE /\ IoRaise(HandleAstmetad(NewConsumer, payload).exc)
                /\ UNCHANGED <<metadata_message, astmetad_received, seen, twin>>
        /\ UNCHANGED <<gmPc, proc_message, astprocd_received, waitLeft, elapsed,
                       metadata_received, gmResult, subsBefore, fetchNo, appVars>>

\* A message reaches _handle_astprocd_message
DeliverAstprocd(from) ==
    \E topic \in brokerSubs, payload \in from :
        /\ Dispatchable(topic, "gmc", "astprocd")
        /\ msgCount' = msgCount + 1
        /\ IF callbacks[topic].n = fetchNo
           THEN LET r == HandleAstprocd(Consumer, payload)
                IN /\ proc_message' = r.c.proc_message
                   /\ astprocd_received' = r.c.astprocd_received
                   /\ IoRaise(r.exc)
                   /\ seen' = Saw("astprocd", payload)
                   /\ twin' = IF payload \in NotRunningStatus THEN twin
                              ELSE [twin EXCEPT
                                      !.c = HandleAstprocd(twin.c, payload).c]
           ELSE /\ IoRaise(HandleAstprocd(NewConsumer, payload).exc)
                /\ UNCHANGED <<proc_message, astprocd_received, seen, twin>>
        /\ UNCHANGED <<gmPc, metadata_message, astmetad_received, waitLeft, elapsed,
                       metadata_received, gmResult, subsBefore, fetchNo, appVars>>

----------------------------------------------------------------------------
\* BroadcastHelper and WaitForStartButtonBroadcastConsumer
\* (src/sr/robot3/astoria.py)

\* StartButtonBroadcastEvent.name, and the topic of lines 178 and 182
StartTopic == "broadcast/start_button"

\* What the broadcast topic may deliver: the malformed payloads and
\* start-button events of three senders
BroadcastPayloads == {"badutf8", "badjson", "invalid", "start1", "start2",
                      "start3"}

NoEvent == [event_name |-> None, sender_name |-> None, priority |-> 0]

\* The StartButtonBroadcastEvent parse_obj_as builds (line 204)
EventOf(payload) ==
    CASE payload = "start1" ->
            [event_name |-> "start_button", sender_name |-> "s1", priority |-> 0]
      [] payload = "start2" ->
            [event_name |-> "start_button", sender_name |-> "s2", priority |-> 1]
      [] payload = "start3" ->
            [event_name |-> "start_button", sender_name |-> "s3", priority |-> 1]
      [] payload = "start_own" ->
            [event_name |-> "start_button", sender_name |-> "sr-robot3",
             priority |-> 0]
      [] OTHER -> NoEvent

\* a < b of two BroadcastEvent objects, the comparison PriorityQueue orders
\* its items by: the events compare by their ordering key alone
EventLess(a, b) == a.priority < b.priority

\* PriorityQueue keeps its items in a list that heapq maintains as a binary
\* heap (line 177). Positions are heapq's, from 0; the list is a sequence
\* from 1.
\* heapq._siftdown(heap, startpos, pos): the item at pos moves towards the
\* root past every parent it is less than
RECURSIVE SiftDownFrom(_, _, _, _)
SiftDownFrom(heap, startpos, pos, newitem) ==
    IF pos > startpos /\ EventLess(newitem, heap[((pos - 1) \div 2) + 1])
    THEN SiftDownFrom([heap EXCEPT ![pos + 1] = heap[((pos - 1) \div 2) + 1]],
                      startpos, (pos - 1) \div 2, newitem)
    ELSE [heap EXCEPT ![pos + 1] = newitem]

SiftDown(heap, startpos, pos) == SiftDownFrom(heap, startpos, pos, heap[pos + 1])

\* heapq._siftup(heap, pos): the smaller child is moved up until a leaf is
\* reached (the right child when the left one is not less than it), the item
\* is put there and sifted down
RECURSIVE SiftUpFrom(_, _, _, _)
SiftUpFrom(heap, startpos, pos, newitem) ==
    LET endpos == Len(heap)
        childpos == 2 * pos + 1
        rightpos == childpos + 1
        smaller == IF rightpos < endpos
                      /\ ~EventLess(heap[childpos + 1], heap[rightpos + 1])
                   THEN rightpos ELSE childpos
    IN IF childpos < endpos
       THEN SiftUpFrom([heap EXCEPT ![pos + 1] = heap[smaller + 1]],
                       startpos, smaller, newitem)
       ELSE SiftDown([heap EXCEPT ![pos + 1] = newitem], startpos, pos)

SiftUp(heap, pos) == SiftUpFrom(heap, pos, pos, heap[pos + 1])

\* PriorityQueue._put: heapq.heappush(queue, item)
HeapPush(heap, item) == SiftDown(Append(heap, item), 0, Len(heap))

\* heappop handing out the item it took off the end of the list
HeapPopLast(heap) ==
    [item |-> heap[Len(heap)], heap |-> SubSeq(heap, 1, Len(heap) - 1)]

\* PriorityQueue._get: heapq.heappop(queue) of a queue that is not empty
HeapPop(heap) ==
    LET lastelt == heap[Len(heap)]
        rest == SubSeq(heap, 1, Len(heap) - 1)
    IN IF Len(rest) > 0
       THEN [item |-> heap[1], heap |-> SiftUp([rest EXCEPT ![1] = lastelt], 0)]
       ELSE [item |-> lastelt, heap |-> rest]

\* _handle_broadcast setting message_received from its JSONDecodeError branch
\* as well
HandleBroadcastSetsOnBadJson(queue, event, payload) ==
    IF LoadsError(payload) = "JSONDecodeError"
    THEN [queue |-> queue, event |-> TRUE, exc |-> None]
    ELSE IF LoadsError(payload) # None
    THEN [queue |-> queue, event |-> event, exc |-> LoadsError(payload)]
    ELSE IF ParseError(payload) # None
    THEN [queue |-> queue, event |-> event, exc |-> ParseError(payload)]
    ELSE [queue |-> HeapPush(queue, EventOf(payload)), event |-> TRUE,
          exc |-> None]

\* _handle_broadcast flipping message_received instead of setting it
HandleBroadcastToggles(queue, event, payload) ==
    IF LoadsError(payload) = "JSONDecodeError"
    THEN [queue |-> queue, event |-> event, exc |-> None]
    ELSE IF LoadsError(payload) # None
    THEN [queue |-> queue, event |-> event, exc |-> LoadsError(payload)]
    ELSE IF ParseError(payload) # None
    THEN [queue |-> queue, event |-> event, exc |-> ParseError(payload)]
    ELSE [queue |-> HeapPush(queue, EventOf(payload)), event |-> ~event,
          exc |-> None]

\* _handle_broadcast, lines 191-210: the queue, the message_received event and
\* the exception the handler lets through; only JSONDecodeError is caught.
HandleBroadcast(queue, event, payload) ==
    IF LoadsError(payload) = "JSONDecodeError"
    THEN [queue |-> queue, event |-> event, exc |-> None]
    ELSE IF LoadsError(payload) # None
    THEN [queue |-> queue, event |-> event, exc |-> LoadsError(payload)]
    ELSE IF ParseError(payload) # None
    THEN [queue |-> queue, event |-> event, exc |-> ParseError(payload)]
    ELSE [queue |-> HeapPush(queue, EventOf(payload)), event |-> TRUE,
          exc |-> None]

\* paho calls _handle_broadcast of the helper with a message
BroadcastArrives(payload) ==
    /\ LET r == HandleBroadcast(eventQueue, start_event, payload)
       IN /\ eventQueue' = r.queue
          /\ start_event' = r.event
          /\ IoRaise(r.exc)
    /\ UNCHANGED <<gmPc, metadata_message, proc_message, astmetad_received,
                   astprocd_received, waitLeft, elapsed, metadata_received,
                   gmResult, subsBefore, seen, twin, fetchNo, appVars>>
    /\ UNCHANGED <<wsPc, trigger_event, helperDeleted, buttonLatch, counter,
                   led_state, runLed, kchStart, exitBy, sleepsAfterTrigger,
                   killTimer>>

\* A message reaches _handle_broadcast of the helper wait_start created
DeliverBroadcast(from) ==
    \E topic \in brokerSubs, payload \in from :
        /\ Dispatchable(topic, "bh", "broadcast")
        /\ msgCount' = msgCount + 1
        /\ BroadcastArrives(payload)
        /\ UNCHANGED <<wbVars, ocVars, kchVars, hsVars, wtVars>>

\* CPython reference counting: the helper object is referenced by the
\* consumer's _trigger_event attribute and by every registry that holds its
\* bound method _handle_broadcast (line 178 hands it to MQTTClient.subscribe,
\* mqtt.py lines 96 and 105).
IsHelperCallback(cb) == cb.owner = "bh"
HelperRefs(attr, subs, cbs) ==
    (IF attr THEN 1 ELSE 0)
    + Cardinality({t \in DOMAIN subs : IsHelperCallback(subs[t])})
    + Cardinality({t \in DOMAIN cbs : IsHelperCallback(cbs[t])})

----------------------------------------------------------------------------
\* Robot.wait_start (src/sr/robot3/robot.py, lines 380-428)

NoTimer == [armed |-> FALSE, delay |-> 0]

\* Metadata.game_timeout of the metadata a fetch returned is not None; the
\* default metadata has none
HasGameTimeout(metadata) == metadata \in {"md1", "md2", "md3"}

\* Metadata.game_timeout of the metadata a fetch returned (0 for None)
GameTimeout(metadata) ==
    CASE metadata = "md1" -> 150
      [] metadata = "md2" -> 120
      [] OTHER -> 0

\* timeout.py, lines 18-19: signal(SIGALRM, timeout_handler) and
\* alarm(timeout_seconds); alarm(0) schedules no alarm
KillAfterDelay(timeout_seconds) ==
    [armed |-> timeout_seconds > 0, delay |-> timeout_seconds]

\* The value kch.start holds after the assignment kch.start = value
KchSetStart(value) == value

\* lines 390-395: the event and the consumer; BroadcastHelper.__init__
\* (astoria.py lines 172-178) subscribes the broadcast topic
WsCreateConsumer ==
    /\ wsPc = "idle"
    /\ wsPc' = "begin"
    /\ start_event' = FALSE
    /\ eventQueue' = <<>>
    /\ trigger_event' = TRUE
    /\ Subscribe(StartTopic, Callback("bh", 1, "broadcast"), FALSE)
    /\ UNCHANGED <<helperDeleted, buttonLatch, counter, led_state, runLed,
                   kchStart, exitBy, sleepsAfterTrigger, killTimer>>
    /\ UNCHANGED <<gmcVars, opCount, lastOp, wbVars, ocVars, kchVars, hsVars, wtVars>>

\* lines 397-400: the buzz, the loop variables and the discarded read of the
\* start button
WsBegin ==
    /\ wsPc = "begin"
    /\ wsPc' = "check"
    /\ counter' = 0
    /\ led_state' = FALSE
    /\ buttonLatch' = FALSE
    /\ UNCHANGED <<start_event, trigger_event, helperDeleted, eventQueue, runLed,
                   kchStart, exitBy, sleepsAfterTrigger, killTimer>>
    /\ UNCHANGED <<clientVars, gmcVars, appVars, wbVars, ocVars, kchVars, hsVars, wtVars>>

\* the loop going on until both triggers have fired
LoopContinuesUntilBoth(is_pressed, is_set) == ~is_pressed \/ ~is_set

\* lines 401-402: whether the loop goes on, given the button read and the event
LoopContinues(is_pressed, is_set) == ~is_pressed /\ ~is_set

\* lines 401-402: the loop condition is evaluated
WsCheck ==
    /\ wsPc = "check"
    /\ buttonLatch' = FALSE
    /\ IF LoopContinues(buttonLatch, start_event)
       THEN /\ wsPc' = "body"
            /\ UNCHANGED exitBy
       ELSE /\ wsPc' = "close"
            /\ exitBy' = IF buttonLatch THEN "button" ELSE "event"
    /\ UNCHANGED <<start_event, trigger_event, helperDeleted, eventQueue, counter,
                   led_state, runLed, kchStart, sleepsAfterTrigger, killTimer>>
    /\ UNCHANGED <<clientVars, gmcVars, appVars, wbVars, ocVars, kchVars, hsVars, wtVars>>

\* lines 403-406: every sixth iteration toggles both indicators
WsBlink ==
    /\ wsPc = "body"
    /\ wsPc' = "sleep"
    /\ IF counter % 6 = 0
       THEN /\ led_state' = ~led_state
            /\ runLed' = ~led_state
            /\ kchStart' = KchSetStart(~led_state)
       ELSE UNCHANGED <<led_state, runLed, kchStart>>
    /\ UNCHANGED <<start_event, trigger_event, helperDeleted, eventQueue,
                   buttonLatch, counter, exitBy, sleepsAfterTrigger, killTimer>>
    /\ UNCHANGED <<clientVars, gmcVars, appVars, wbVars, ocVars, kchVars, hsVars, wtVars>>

\* lines 407-408: one poll interval; the counter is kept modulo 6, all the
\* loop uses of it
WsSleep ==
    /\ wsPc = "sleep"
    /\ wsPc' = "check"
    /\ counter' = (counter + 1) % 6
    /\ sleepsAfterTrigger' =
          IF start_event \/ buttonLatch
          THEN IF sleepsAfterTrigger < 2 THEN sleepsAfterTrigger + 1 ELSE 2
          ELSE sleepsAfterTrigger
    /\ UNCHANGED <<start_event, trigger_event, helperDeleted, eventQueue,
                   buttonLatch, led_state, runLed, kchStart, exitBy, killTimer>>
    /\ UNCHANGED <<clientVars, gmcVars, appVars, wbVars, ocVars, kchVars, hsVars, wtVars>>

\* line 411, WaitForStartButtonBroadcastConsumer.close (astoria.py lines
\* 147-150): del self._trigger_event drops one reference; __del__ (lines
\* 180-182) runs, and unsubscribes, only when that was the last one.
WsClose ==
    /\ wsPc = "close"
    /\ wsPc' = "indicators"
    /\ trigger_event' = FALSE
    /\ IF HelperRefs(FALSE, subscriptions, callbacks) = 0
       THEN /\ helperDeleted' = TRUE
            /\ Unsubscribe(StartTopic)
       ELSE /\ UNCHANGED <<helperDeleted, clientVars, raised>>
    /\ UNCHANGED <<start_event, eventQueue, buttonLatch, counter, led_state,
                   runLed, kchStart, exitBy, sleepsAfterTrigger, killTimer>>
    /\ UNCHANGED <<gmcVars, opCount, lastOp, wbVars, ocVars, kchVars, hsVars, wtVars>>

\* lines 413-414 without lines 416-417
WsIndicatorsRunLedOnly ==
    /\ wsPc = "indicators"
    /\ wsPc' = "reload"
    /\ runLed' = TRUE
    /\ UNCHANGED <<start_event, trigger_event, helperDeleted, eventQueue,
                   buttonLatch, counter, led_state, kchStart, exitBy,
                   sleepsAfterTrigger, killTimer>>
    /\ UNCHANGED <<clientVars, gmcVars, appVars, wbVars, ocVars, kchVars, hsVars, wtVars>>

\* lines 413-417: the run LED on, the KCH start LED off
WsIndicators ==
    /\ wsPc = "indicators"
    /\ wsPc' = "reload"
    /\ runLed' = TRUE
    /\ kchStart' = KchSetStart(FALSE)
    /\ UNCHANGED <<start_event, trigger_event, helperDeleted, eventQueue,
                   buttonLatch, counter, led_state, exitBy, sleepsAfterTrigger,
                   killTimer>>
    /\ UNCHANGED <<clientVars, gmcVars, appVars, wbVars, ocVars, kchVars, hsVars, wtVars>>

\* line 422: _init_metadata (lines 181-185) calls get_metadata
WsReload ==
    /\ wsPc = "reload"
    /\ wsPc' = "reloading"
    /\ GmcCall
    /\ UNCHANGED <<start_event, trigger_event, helperDeleted, eventQueue,
                   buttonLatch, counter, led_state, runLed, kchStart, exitBy,
                   sleepsAfterTrigger, killTimer>>
    /\ UNCHANGED <<wbVars, ocVars, kchVars, hsVars, wtVars>>

\* the steps of that get_metadata call
WsFetchStep ==
    /\ wsPc = "reloading"
    /\ gmPc # "idle"
    /\ GmcStep
    /\ UNCHANGED <<wsVars, wbVars, ocVars, kchVars, hsVars, wtVars>>

\* lines 424-428 and timeout.py lines 15-19: the kill timer is armed when the
\* reloaded metadata has a game timeout
WsReturn ==
    /\ wsPc = "reloading"
    /\ gmPc = "done"
    /\ wsPc' = "returned"
    /\ killTimer' = IF HasGameTimeout(gmResult.metadata)
                    THEN KillAfterDelay(GameTimeout(gmResult.metadata))
                    ELSE killTimer
    /\ UNCHANGED <<start_event, trigger_event, helperDeleted, eventQueue,
                   buttonLatch, counter, led_state, runLed, kchStart, exitBy,
                   sleepsAfterTrigger>>
    /\ UNCHANGED <<clientVars, gmcVars, appVars, wbVars, ocVars, kchVars, hsVars, wtVars>>

\* timeout.py, lines 10-12: the alarm goes off after wait_start returned and
\* timeout_handler raises SystemExit in the main thread
WsAlarm ==
    /\ wsPc = "returned"
    /\ killTimer.armed
    /\ wsPc' = "killed"
    /\ raised' = "SystemExit"
    /\ UNCHANGED <<start_event, trigger_event, helperDeleted, eventQueue,
                   buttonLatch, counter, led_state, runLed, kchStart, exitBy,
                   sleepsAfterTrigger, killTimer>>
    /\ UNCHANGED <<opCount, lastOp, clientVars, gmcVars, wbVars, ocVars, kchVars, hsVars, wtVars>>

\* wait_start has not left its loop
Waiting == wsPc \in {"idle", "begin", "check", "body", "sleep"}

\* Somebody presses the start button while the robot waits
PressButton ==
    /\ ~buttonLatch
    /\ Waiting
    /\ buttonLatch' = TRUE
    /\ UNCHANGED <<wsPc, start_event, trigger_event, helperDeleted, eventQueue,
                   counter, led_state, runLed, kchStart, exitBy,
                   sleepsAfterTrigger, killTimer>>
    /\ UNCHANGED <<clientVars, gmcVars, appVars, wbVars, ocVars, kchVars, hsVars, wtVars>>

----------------------------------------------------------------------------
\* BroadcastHelper.wait_broadcast (astoria.py lines 224-226) and
\* WaitForStartButtonBroadcastConsumer.run (lines 143-145), called by an
\* application thread

NoSaw == [queue |-> <<>>, pending |-> <<>>]

\* The timeouts wait_broadcast is called with, in ticks
WaitTimeouts == {0, StepTicks}

\* seq without the first occurrence of e
RemoveFirst(seq, e) ==
    LET i == CHOOSE j \in DOMAIN seq :
                 seq[j] = e /\ \A k \in 1..(j - 1) : seq[k] # e
    IN SubSeq(seq, 1, i - 1) \o SubSeq(seq, i + 1, Len(seq))

\* Queue.get looking at its deadline before it looks at the queue
QueueGetDeadlineFirst(queue, timed, left) ==
    IF timed /\ left = 0
    THEN [kind |-> "Empty", item |-> NoEvent, queue |-> queue]
    ELSE IF Len(queue) > 0
    THEN [kind |-> "item", item |-> HeapPop(queue).item,
          queue |-> HeapPop(queue).heap]
    ELSE [kind |-> "wait", item |-> NoEvent, queue |-> queue]

\* self._event_queue.get(timeout=timeout), line 226, each time the caller
\* holds the queue's lock: an item is taken when there is one, queue.Empty is
\* raised when there is none and the timeout has run out, and the caller goes
\* on waiting otherwise (for ever when timeout is None)
QueueGet(queue, timed, left) ==
    IF Len(queue) > 0
    THEN [kind |-> "item", item |-> HeapPop(queue).item,
          queue |-> HeapPop(queue).heap]
    ELSE IF timed /\ left = 0
    THEN [kind |-> "Empty", item |-> NoEvent, queue |-> queue]
    ELSE [kind |-> "wait", item |-> NoEvent, queue |-> queue]

\* wait_broadcast(timeout) is called; timed is FALSE for timeout=None
WbCall ==
    \E timed \in BOOLEAN, timeout \in WaitTimeouts :
        /\ wbPc = "idle"
        /\ wbCalls < MaxWaits
        /\ timed \/ timeout = 0
        /\ wbPc' = "get"
        /\ wbTimed' = timed
        /\ wbLeft' = timeout
        /\ wbResult' = NoEvent
        /\ wbRaised' = None
        /\ wbCalls' = wbCalls + 1
        /\ UNCHANGED <<wbSaw, pending, evCount>>
        /\ UNCHANGED <<clientVars, appVars, gmcVars, wsVars, ocVars, kchVars, hsVars, wtVars>>

\* time passes while the caller waits
WbTick ==
    /\ wbPc = "get"
    /\ wbTimed
    /\ wbLeft > 0
    /\ wbLeft' = wbLeft - 1
    /\ UNCHANGED <<wbPc, wbTimed, wbResult, wbRaised, wbCalls, wbSaw, pending,
                   evCount>>
    /\ UNCHANGED <<clientVars, appVars, gmcVars, wsVars, ocVars, kchVars, hsVars, wtVars>>

\* wait_broadcast returns an event or raises queue.Empty
WbReturn ==
    /\ wbPc = "get"
    /\ LET r == QueueGet(eventQueue, wbTimed, wbLeft)
       IN /\ r.kind # "wait"
          /\ eventQueue' = r.queue
          /\ wbResult' = r.item
          /\ wbRaised' = IF r.kind = "Empty" THEN "Empty" ELSE None
          /\ wbSaw' = IF r.kind = "item"
                      THEN [queue |-> eventQueue, pending |-> pending]
                      ELSE wbSaw
          /\ pending' = IF r.kind = "item" THEN RemoveFirst(pending, r.item)
                        ELSE pending
    /\ wbPc' = "idle"
    /\ UNCHANGED <<wbTimed, wbLeft, wbCalls, evCount>>
    /\ UNCHANGED <<wsPc, start_event, trigger_event, helperDeleted, buttonLatch,
                   counter, led_state, runLed, kchStart, exitBy,
                   sleepsAfterTrigger, killTimer>>
    /\ UNCHANGED <<clientVars, appVars, gmcVars, ocVars, kchVars, hsVars, wtVars>>

\* WaitForStartButtonBroadcastConsumer.run is called, line 143
RcCall ==
    /\ wbPc = "idle"
    /\ wbCalls < MaxWaits
    /\ wbPc' = "run"
    /\ wbCalls' = wbCalls + 1
    /\ UNCHANGED <<wbTimed, wbLeft, wbResult, wbRaised, wbSaw, pending, evCount>>
    /\ UNCHANGED <<clientVars, appVars, gmcVars, wsVars, ocVars, kchVars, hsVars, wtVars>>

\* self._start_event.wait(), line 145, returns once the event is set
RcReturn ==
    /\ wbPc = "run"
    /\ start_event
    /\ wbPc' = "idle"
    /\ UNCHANGED <<wbTimed, wbLeft, wbResult, wbRaised, wbCalls, wbSaw, pending,
                   evCount>>
    /\ UNCHANGED <<clientVars, appVars, gmcVars, wsVars, ocVars, kchVars, hsVars, wtVars>>

\* A message reaches _handle_broadcast of the consumer's helper
BcDeliver(from) ==
    \E topic \in brokerSubs, payload \in from :
        /\ Registered(topic, "bh", "broadcast")
        /\ evCount < MaxEvents
        /\ evCount' = evCount + 1
        /\ BroadcastArrives(payload)
        /\ pending' =
              IF Len(HandleBroadcast(eventQueue, start_event, payload).queue)
                    > Len(eventQueue)
              THEN Append(pending, EventOf(payload))
              ELSE pending
        /\ UNCHANGED <<wbPc, wbTimed, wbLeft, wbResult, wbRaised, wbCalls, wbSaw,
                       msgCount, ocVars, kchVars, hsVars, wtVars>>

----------------------------------------------------------------------------
\* The states of the parts a specification does not exercise

GmcIdle ==
    /\ gmPc = "idle"
    /\ metadata_message = NoMessage
    /\ proc_message = NoMessage
    /\ astmetad_received = FALSE
    /\ astprocd_received = FALSE
    /\ waitLeft = 0
    /\ elapsed = 0
    /\ metadata_received = FALSE
    /\ gmResult = NoResult
    /\ subsBefore = EmptyMap
    /\ seen = NothingSeen
    /\ twin = NewTwin
    /\ msgCount = 0

WsIdle ==
    /\ wsPc = "idle"
    /\ start_event = FALSE
    /\ trigger_event = FALSE
    /\ helperDeleted = FALSE
    /\ eventQueue = <<>>
    /\ buttonLatch = FALSE
    /\ counter = 0
    /\ led_state = FALSE
    /\ runLed = FALSE
    /\ kchStart = FALSE
    /\ exitBy = None
    /\ sleepsAfterTrigger = 0
    /\ killTimer = NoTimer

WbIdle ==
    /\ wbPc = "idle"
    /\ wbTimed = FALSE
    /\ wbLeft = 0
    /\ wbResult = NoEvent
    /\ wbRaised = None
    /\ wbCalls = 0
    /\ wbSaw = NoSaw
    /\ pending = <<>>
    /\ evCount = 0

NoItem == [topic |-> None, callback |-> None]

OcIdle ==
    /\ ocPc = "idle"
    /\ ocSize = 0
    /\ ocDone = {}
    /\ ocItem = NoItem

KchIdle ==
    /\ kchPc = "idle"
    /\ kch_info = None
    /\ kchHalted = FALSE
    /\ kchRaised = None
    /\ kchLeft = 0
    /\ kchResult = None
    /\ kchLast = None
    /\ kchMsgs = 0

HsIdle ==
    /\ hsPc = "idle"
    /\ hsC = NewConsumer

\* The application threads that call wait_broadcast in SpecWaiters
Waiters == {"w1", "w2"}

WtIdle ==
    /\ wtPc = [w \in Waiters |-> "idle"]
    /\ wtGot = [w \in Waiters |-> <<>>]
    /\ wtPut = <<>>

AppIdle ==
    /\ opCount = 0
    /\ raised = None
    /\ lastOp = [op |-> None, topic |-> None, connected |-> FALSE,
                 before |-> EmptyMap]

\* MQTTClient.__init__, lines 36-49
ClientInit ==
    /\ topic_prefix \in Prefixes
    /\ subscriptions = EmptyMap
    /\ callbacks = EmptyMap
    /\ brokerSubs = {}
    /\ connState = "new"
    /\ loopRunning = FALSE
    /\ atexitRegs = 0
    /\ sent = {}
    /\ outQueue = <<>>
    /\ ioRaised = None
    /\ brokerUp \in BOOLEAN
    /\ lastConnect = None

----------------------------------------------------------------------------
\* Spec: an application thread calling the MQTTClient API in any order while
\* the connection comes and goes.

ApiTopics == {"a", "b"}
ApiCallbacks == {"cb1", "cb2"}
ApiUnsubTopics == ApiTopics \cup {FullTopic(t, FALSE) : t \in ApiTopics}
ApiPayloads == {"m1"}

Called(op, topic) ==
    /\ opCount < MaxOps
    /\ opCount' = opCount + 1
    /\ lastOp' = [op |-> op, topic |-> topic, connected |-> IsConnected,
                  before |-> subscriptions]
    /\ UNCHANGED <<gmcVars, wsVars, wbVars, ocVars, kchVars, hsVars, wtVars>>

ApiConnect ==
    \E outcome \in ConnectOutcomes :
        /\ (outcome = "ok") = brokerUp
        /\ Connect(outcome)
        /\ Called("connect", outcome)

ApiDisconnect ==
    /\ loopRunning
    /\ Disconnect
    /\ Called("disconnect", None)

ApiSubscribe ==
    \E t \in ApiTopics, cb \in ApiCallbacks, ov \in BOOLEAN :
        /\ Subscribe(t, cb, ov)
        /\ Called("subscribe", t)

ApiUnsubscribe ==
    \E t \in ApiUnsubTopics :
        /\ Unsubscribe(t)
        /\ Called("unsubscribe", t)

ApiPublish ==
    \E t \in ApiTopics \cup {"bad/#"}, m \in ApiPayloads, auto \in BOOLEAN :
        /\ Publish(t, m, auto)
        /\ Called("publish", t)

IoOnConnect ==
    /\ OnConnect
    /\ UNCHANGED <<appVars, gmcVars, wsVars, wbVars, ocVars, kchVars, hsVars, wtVars>>

IoDrop ==
    /\ Drop
    /\ UNCHANGED <<appVars, gmcVars, wsVars, wbVars, ocVars, kchVars, hsVars, wtVars>>

\* The broker becomes unreachable, and the connection it held is lost, or
\* becomes reachable again
IoBroker ==
    /\ brokerUp' = ~brokerUp
    /\ connState' = IF brokerUp /\ connState = "connected" THEN "dropped"
                    ELSE connState
    /\ brokerSubs' = IF brokerUp THEN {} ELSE brokerSubs
    /\ UNCHANGED <<topic_prefix, subscriptions, callbacks, loopRunning, atexitRegs,
                   sent, outQueue, ioRaised, lastConnect>>
    /\ UNCHANGED <<appVars, gmcVars, wsVars, wbVars, ocVars, kchVars, hsVars, wtVars>>

Init ==
    /\ ClientInit
    /\ AppIdle
    /\ GmcIdle
    /\ fetchNo = 0
    /\ WsIdle
    /\ WbIdle
    /\ OcIdle
    /\ KchIdle
    /\ HsIdle
    /\ WtIdle

Next ==
    \/ ApiConnect
    \/ ApiDisconnect
    \/ ApiSubscribe
    \/ ApiUnsubscribe
    \/ ApiPublish
    \/ IoOnConnect
    \/ IoDrop
    \/ IoBroker

Spec == Init /\ [][Next]_vars

----------------------------------------------------------------------------
\* SpecFetch: Robot.__init__ has created the client (init_mqtt) and calls
\* _init_metadata, i.e. GetMetadataConsumer.get_metadata, once, while the I/O
\* thread connects, loses the connection and delivers messages.

\* The client as MQTTClient.establish leaves it (mqtt.py lines 69-76): the
\* CONNECT was sent and the loop started, or the attempt failed and was logged.
ClientEstablished ==
    /\ topic_prefix \in Prefixes
    /\ subscriptions = EmptyMap
    /\ callbacks = EmptyMap
    /\ brokerSubs = {}
    /\ brokerUp \in BOOLEAN
    /\ connState = IF brokerUp THEN "connecting" ELSE "new"
    /\ loopRunning = brokerUp
    /\ atexitRegs = IF brokerUp THEN 1 ELSE 0
    /\ sent = {}
    /\ outQueue = <<>>
    /\ ioRaised = None
    /\ lastConnect = None

InitFetch ==
    /\ ClientEstablished
    /\ AppIdle
    /\ GmcIdle
    /\ fetchNo = 0
    /\ WsIdle
    /\ WbIdle
    /\ OcIdle
    /\ KchIdle
    /\ HsIdle
    /\ WtIdle

FetchStep ==
    /\ GmcStep
    /\ UNCHANGED <<wsVars, wbVars, ocVars, kchVars, hsVars, wtVars>>

FetchDeliverAstmetad ==
    /\ DeliverAstmetad(Payloads)
    /\ UNCHANGED <<wsVars, wbVars, ocVars, kchVars, hsVars, wtVars>>

FetchDeliverAstprocd ==
    /\ DeliverAstprocd(Payloads)
    /\ UNCHANGED <<wsVars, wbVars, ocVars, kchVars, hsVars, wtVars>>

NextFetch ==
    \/ FetchStep
    \/ FetchDeliverAstmetad
    \/ FetchDeliverAstprocd
    \/ IoOnConnect
    \/ IoDrop

SpecFetch == InitFetch /\ [][NextFetch]_vars

----------------------------------------------------------------------------
\* SpecStart: Robot.__init__ (robot.py lines 86-107) has created the client,
\* fetched the metadata once and calls wait_start, while the I/O thread
\* connects, loses the connection and delivers messages, and somebody may
\* press the start button.

\* What the first fetch left tracked: with a topic prefix, run subscribed the
\* prefixed topics (astoria.py lines 50-51) and unsubscribed the bare ones
\* (lines 61-62).
LeftByFirstFetch ==
    IF topic_prefix = NoPrefix THEN EmptyMap
    ELSE [t \in {FullTopic("astmetad", FALSE), FullTopic("astprocd", FALSE)} |->
            IF t = FullTopic("astmetad", FALSE)
            THEN Callback("gmc", 1, "astmetad")
            ELSE Callback("gmc", 1, "astprocd")]

ClientAtWaitStart ==
    /\ topic_prefix \in Prefixes
    /\ brokerUp \in BOOLEAN
    /\ connState \in (IF brokerUp THEN {"connecting", "connected"} ELSE {"new"})
    /\ loopRunning = brokerUp
    /\ atexitRegs = IF brokerUp THEN 1 ELSE 0
    /\ subscriptions = LeftByFirstFetch
    /\ callbacks = LeftByFirstFetch
    /\ brokerSubs = IF connState = "connected" THEN DOMAIN LeftByFirstFetch ELSE {}
    /\ sent = {}
    /\ outQueue = <<>>
    /\ ioRaised = None
    /\ lastConnect = IF connState = "connected" THEN "first" ELSE None

InitStart ==
    /\ ClientAtWaitStart
    /\ AppIdle
    /\ GmcIdle
    /\ fetchNo = 1
    /\ WsIdle
    /\ WbIdle
    /\ OcIdle
    /\ KchIdle
    /\ HsIdle
    /\ WtIdle

\* What the topics deliver while wait_start runs
StartStatusPayloads == {"badjson", "running1", "running_nodisk"}
StartBroadcastPayloads == {"badjson", "invalid", "start1"}

\* The I/O thread's steps, until wait_start has returned
StartDeliverBroadcast ==
    /\ wsPc \notin {"returned", "killed"}
    /\ DeliverBroadcast(StartBroadcastPayloads)

StartDeliverAstmetad ==
    /\ wsPc \notin {"returned", "killed"}
    /\ DeliverAstmetad(StartStatusPayloads)
    /\ UNCHANGED <<wsVars, wbVars, ocVars, kchVars, hsVars, wtVars>>

StartDeliverAstprocd ==
    /\ wsPc \notin {"returned", "killed"}
    /\ DeliverAstprocd(StartStatusPayloads)
    /\ UNCHANGED <<wsVars, wbVars, ocVars, kchVars, hsVars, wtVars>>

StartOnConnect ==
    /\ wsPc \notin {"returned", "killed"}
    /\ IoOnConnect

StartDrop ==
    /\ wsPc \notin {"returned", "killed"}
    /\ IoDrop

NextStart ==
    \/ WsCreateConsumer
    \/ WsBegin
    \/ WsCheck
    \/ WsBlink
    \/ WsSleep
    \/ WsClose
    \/ WsIndicators
    \/ WsReload
    \/ WsFetchStep
    \/ WsReturn
    \/ WsAlarm
    \/ PressButton
    \/ StartDeliverBroadcast
    \/ StartDeliverAstmetad
    \/ StartDeliverAstprocd
    \/ StartOnConnect
    \/ StartDrop

SpecStart == InitStart /\ [][NextStart]_vars

\* The application thread is always scheduled again, and the start button is
\* eventually pressed.
WaitStartThread ==
    \/ WsCreateConsumer
    \/ WsBegin
    \/ WsCheck
    \/ WsBlink
    \/ WsSleep
    \/ WsClose
    \/ WsIndicators
    \/ WsReload
    \/ WsFetchStep
    \/ WsReturn

FairSpecStart ==
    /\ InitStart
    /\ [][NextStart]_vars
    /\ WF_vars(WaitStartThread)
    /\ WF_vars(PressButton)

----------------------------------------------------------------------------
\* SpecBroadcast: a WaitForStartButtonBroadcastConsumer exists on an
\* established client; the application thread calls its run and its helper's
\* wait_broadcast while the I/O thread connects, loses the connection and
\* delivers broadcast messages.

\* What BroadcastHelper.__init__ (astoria.py line 178) left tracked
HelperSubscribed ==
    [t \in {FullTopic(StartTopic, FALSE)} |-> Callback("bh", 1, "broadcast")]

InitBroadcast ==
    /\ topic_prefix \in Prefixes
    /\ brokerUp = TRUE
    /\ connState \in {"connecting", "connected"}
    /\ loopRunning = TRUE
    /\ atexitRegs = 1
    /\ subscriptions = HelperSubscribed
    /\ callbacks = HelperSubscribed
    /\ brokerSubs = IF connState = "connected" THEN DOMAIN HelperSubscribed ELSE {}
    /\ sent = {}
    /\ outQueue = <<>>
    /\ ioRaised = None
    /\ lastConnect = IF connState = "connected" THEN "first" ELSE None
    /\ AppIdle
    /\ GmcIdle
    /\ fetchNo = 0
    /\ wsPc = "idle"
    /\ start_event = FALSE
    /\ trigger_event = TRUE
    /\ helperDeleted = FALSE
    /\ eventQueue = <<>>
    /\ buttonLatch = FALSE
    /\ counter = 0
    /\ led_state = FALSE
    /\ runLed = FALSE
    /\ kchStart = FALSE
    /\ exitBy = None
    /\ sleepsAfterTrigger = 0
    /\ killTimer = NoTimer
    /\ WbIdle
    /\ OcIdle
    /\ KchIdle
    /\ HsIdle
    /\ WtIdle

\* StartButtonBroadcastEvent.name, and the client name init_mqtt gives
SchemaName == "start_button"
ClientName == "sr-robot3"

\* send, lines 214-218 and 221: data.json() of the event built from the
\* schema's name and the client's name, the payload that parses to that event
SendPayload(event_name, sender_name) ==
    CHOOSE p \in {"start1", "start2", "start3", "start_own"} :
        /\ EventOf(p).event_name = event_name
        /\ EventOf(p).sender_name = sender_name

\* send, lines 212-222
Send ==
    Publish("broadcast/" \o SchemaName, SendPayload(SchemaName, ClientName),
            TRUE)

\* The application calls send on the helper; paho queues what it cannot write
BcSend ==
    /\ Len(outQueue) < MaxEvents
    /\ Send
    /\ UNCHANGED <<opCount, lastOp, gmcVars, wsVars, wbVars, ocVars, kchVars, hsVars, wtVars>>

\* What the broadcast topic delivers in SpecBroadcast
BcPayloads == {"badjson", "invalid", "start1", "start2", "start3"}

BcDeliverBroadcast == BcDeliver(BcPayloads)

NextBroadcast ==
    \/ WbCall
    \/ WbTick
    \/ WbReturn
    \/ RcCall
    \/ RcReturn
    \/ BcDeliverBroadcast
    \/ BcSend
    \/ IoOnConnect
    \/ IoDrop

SpecBroadcast == InitBroadcast /\ [][NextBroadcast]_vars

\* The application thread is always scheduled again and time passes
FairSpecBroadcast ==
    /\ InitBroadcast
    /\ [][NextBroadcast]_vars
    /\ WF_vars(WbTick)
    /\ WF_vars(WbReturn)
    /\ WF_vars(RcReturn)

----------------------------------------------------------------------------
\* KCHDaemonConsumer (src/sr/robot3/kch.py) and SpecKch: one get_kch call and
\* the kchd messages its consumer is handed

\* What the kchd topic may deliver: text that is not JSON, the JSON null, an
\* object without a status key, a status that is not RUNNING, a RUNNING status
KchPayloads == {"badjson", "null", "nostatus", "stopped", "kch_running"}

\* kch.py line 52, loads(payload): the exception it raises, or None
KchLoadsError(payload) ==
    IF payload = "badjson" THEN "JSONDecodeError" ELSE None

\* lines 53-57 on the decoded message: the exception the subscripts raise, or
\* None
KchStatusError(payload) ==
    CASE payload = "null" -> "TypeError"
      [] payload = "nostatus" -> "KeyError"
      [] OTHER -> None

\* message["kch"]["asset_code"] of a RUNNING status, line 55
KchAssetCode(payload) == IF payload = "kch_running" THEN "asset1" ELSE None

\* _handle_kchd_message, lines 44-61: the stored info, whether halt is
\* called, and the exception that leaves the handler. Only JSONDecodeError is
\* caught (line 58); after it the name message was never bound, and line 60
\* reads it.
HandleKchdMessage(info, payload) ==
    IF KchLoadsError(payload) = "JSONDecodeError"
    THEN [info |-> info, halt |-> FALSE, exc |-> "UnboundLocalError"]
    ELSE IF KchStatusError(payload) # None
    THEN [info |-> info, halt |-> FALSE, exc |-> KchStatusError(payload)]
    ELSE [info |-> IF payload = "kch_running" THEN KchAssetCode(payload)
                   ELSE info,
          halt |-> TRUE, exc |-> None]

\* get_kch, lines 70-73: the consumer is made and run under wait_for; the
\* connection may be refused (lines 78-80)
KchCall ==
    /\ kchPc = "idle"
    /\ \E refused \in BOOLEAN :
          IF refused
          THEN /\ kchPc' = "done"
               /\ kchLeft' = 0
          ELSE /\ kchPc' = "wait"
               /\ kchLeft' = TimeoutTicks
    /\ kch_info' = None
    /\ kchResult' = None
    /\ UNCHANGED <<kchHalted, kchRaised, kchLast, kchMsgs>>
    /\ UNCHANGED <<clientVars, appVars, gmcVars, wsVars, wbVars, ocVars, hsVars, wtVars>>

\* A kchd message reaches _handle_kchd_message while the consumer runs
KchDeliver ==
    \E payload \in KchPayloads :
        /\ kchPc = "wait"
        /\ ~kchHalted
        /\ kchMsgs < MaxMsgs
        /\ kchMsgs' = kchMsgs + 1
        /\ kchLast' = payload
        /\ LET r == HandleKchdMessage(kch_info, payload)
           IN /\ kch_info' = r.info
              /\ kchHalted' = r.halt
              /\ kchRaised' = r.exc
        /\ UNCHANGED <<kchPc, kchLeft, kchResult>>
        /\ UNCHANGED <<clientVars, appVars, gmcVars, wsVars, wbVars, ocVars, hsVars, wtVars>>

\* time passes while wait_loop waits
KchTick ==
    /\ kchPc = "wait"
    /\ ~kchHalted
    /\ kchLeft > 0
    /\ kchLeft' = kchLeft - 1
    /\ UNCHANGED <<kchPc, kch_info, kchHalted, kchRaised, kchResult, kchLast,
                   kchMsgs>>
    /\ UNCHANGED <<clientVars, appVars, gmcVars, wsVars, wbVars, ocVars, hsVars, wtVars>>

\* get_kch, lines 73-83: run returned after halt, or wait_for timed out
KchReturn ==
    /\ kchPc = "wait"
    /\ kchHalted \/ kchLeft = 0
    /\ kchPc' = "done"
    /\ kchResult' = IF kchHalted THEN kch_info ELSE None
    /\ UNCHANGED <<kch_info, kchHalted, kchRaised, kchLeft, kchLast, kchMsgs>>
    /\ UNCHANGED <<clientVars, appVars, gmcVars, wsVars, wbVars, ocVars, hsVars, wtVars>>

InitKch ==
    /\ ClientInit
    /\ AppIdle
    /\ GmcIdle
    /\ fetchNo = 0
    /\ WsIdle
    /\ WbIdle
    /\ OcIdle
    /\ KchIdle
    /\ HsIdle
    /\ WtIdle

NextKch ==
    \/ KchCall
    \/ KchDeliver
    \/ KchTick
    \/ KchReturn

SpecKch == InitKch /\ [][NextKch]_vars

----------------------------------------------------------------------------
\* SpecSignal: the two assignments of a GetMetadataConsumer handler as two
\* steps of paho's loop thread, while get_metadata runs on the application
\* thread

\* The consumer after the handler's second statement ran first: the event is
\* set, the message is not stored yet
FirstStatementSignals(c, after) ==
    [c EXCEPT !.astmetad_received = after.astmetad_received,
              !.astprocd_received = after.astprocd_received]

\* The consumer after the first of the handler's two statements (line 77 or
\* 97): the message is stored, the event is not set yet
FirstStatement(c, after) ==
    [c EXCEPT !.metadata_message = after.metadata_message,
              !.proc_message = after.proc_message]

\* The handler a callback of the running fetch stands for, applied
HandlerResult(handler, payload) ==
    IF handler = "astmetad" THEN HandleAstmetad(Consumer, payload)
    ELSE HandleAstprocd(Consumer, payload)

\* A message reaches a handler of the running fetch: the handler runs up to
\* and including its first assignment, or to its end when it assigns nothing
HsBegin ==
    \E topic \in brokerSubs, payload \in Payloads,
       handler \in {"astmetad", "astprocd"} :
        /\ hsPc = "idle"
        /\ Dispatchable(topic, "gmc", handler)
        /\ callbacks[topic].n = fetchNo
        /\ msgCount' = msgCount + 1
        /\ LET r == HandlerResult(handler, payload)
               first == FirstStatement(Consumer, r.c)
           IN /\ IoRaise(r.exc)
              /\ metadata_message' = first.metadata_message
              /\ proc_message' = first.proc_message
              /\ astmetad_received' = first.astmetad_received
              /\ astprocd_received' = first.astprocd_received
              /\ hsC' = r.c
              /\ hsPc' = IF r.c # Consumer THEN "second" ELSE "idle"
        /\ seen' = Saw(handler, payload)
        /\ UNCHANGED <<gmPc, waitLeft, elapsed, metadata_received, gmResult,
                       subsBefore, twin, fetchNo, appVars>>
        /\ UNCHANGED <<wsVars, wbVars, ocVars, kchVars, wtVars>>

\* The handler's second assignment (line 78 or 98) and its return
HsEnd ==
    /\ hsPc = "second"
    /\ hsPc' = "idle"
    /\ metadata_message' = hsC.metadata_message
    /\ proc_message' = hsC.proc_message
    /\ astmetad_received' = hsC.astmetad_received
    /\ astprocd_received' = hsC.astprocd_received
    /\ UNCHANGED <<gmPc, waitLeft, elapsed, metadata_received, gmResult,
                   subsBefore, seen, twin, msgCount, fetchNo, hsC>>
    /\ UNCHANGED <<clientVars, appVars, wsVars, wbVars, ocVars, kchVars, wtVars>>

\* The loop thread completes a connection when it is not inside a handler
SignalOnConnect ==
    /\ hsPc = "idle"
    /\ IoOnConnect

InitSignal ==
    /\ InitFetch

NextSignal ==
    \/ FetchStep
    \/ HsBegin
    \/ HsEnd
    \/ SignalOnConnect

SpecSignal == InitSignal /\ [][NextSignal]_vars

----------------------------------------------------------------------------
\* SpecWaiters: the loop thread puts events while several application threads
\* call wait_broadcast() of the same helper. queue.Queue does the test for an
\* item and its removal under one mutex, so a get that returns is one step.

\* Queue.get returning the least item and leaving it in the queue
WaiterGetPeeks(queue) ==
    [QueueGet(queue, FALSE, 0) EXCEPT !.queue = queue]

\* self._event_queue.get(timeout=None), astoria.py line 226
WaiterGet(queue) == QueueGet(queue, FALSE, 0)

\* A thread calls wait_broadcast()
WtCall(w) ==
    /\ wtPc[w] = "idle"
    /\ wtPc' = [wtPc EXCEPT ![w] = "get"]
    /\ UNCHANGED <<wtGot, wtPut>>
    /\ UNCHANGED <<clientVars, appVars, gmcVars, wsVars, wbVars, ocVars, kchVars,
                   hsVars>>

\* The thread's get finds an item, takes it and returns it
WtGet(w) ==
    /\ wtPc[w] = "get"
    /\ LET r == WaiterGet(eventQueue)
       IN /\ r.kind = "item"
          /\ eventQueue' = r.queue
          /\ wtGot' = [wtGot EXCEPT ![w] = Append(@, r.item)]
    /\ wtPc' = [wtPc EXCEPT ![w] = "idle"]
    /\ UNCHANGED wtPut
    /\ UNCHANGED <<wsPc, start_event, trigger_event, helperDeleted, buttonLatch,
                   counter, led_state, runLed, kchStart, exitBy,
                   sleepsAfterTrigger, killTimer>>
    /\ UNCHANGED <<clientVars, appVars, gmcVars, wbVars, ocVars, kchVars, hsVars>>

WtCalls == \E w \in Waiters : WtCall(w)
WtGets == \E w \in Waiters : WtGet(w)

\* A message reaches _handle_broadcast of the helper
WtDeliver ==
    \E topic \in brokerSubs, payload \in BcPayloads :
        /\ Registered(topic, "bh", "broadcast")
        /\ evCount < MaxEvents
        /\ evCount' = evCount + 1
        /\ BroadcastArrives(payload)
        /\ wtPut' =
              IF Len(HandleBroadcast(eventQueue, start_event, payload).queue)
                    > Len(eventQueue)
              THEN Append(wtPut, EventOf(payload))
              ELSE wtPut
        /\ UNCHANGED <<wbPc, wbTimed, wbLeft, wbResult, wbRaised, wbCalls, wbSaw,
                       pending, msgCount, ocVars, kchVars, hsVars, wtPc, wtGot>>

InitWaiters ==
    /\ InitBroadcast

NextWaiters ==
    \/ WtCalls
    \/ WtGets
    \/ WtDeliver
    \/ IoOnConnect
    \/ IoDrop

SpecWaiters == InitWaiters /\ [][NextWaiters]_vars

\* How often e occurs in seq
Count(seq, e) == Cardinality({i \in DOMAIN seq : seq[i] = e})

----------------------------------------------------------------------------
\* SpecRace: _on_connect statement by statement on paho's loop thread, while
\* the application thread calls subscribe and unsubscribe. MQTTClient holds no
\* lock: the two threads interleave between any two statements.

\* paho completes the connection and calls _on_connect; the for statement of
\* line 143 makes the iterator of subscriptions.items()
OcBegin ==
    /\ ocPc = "idle"
    /\ connState \in {"connecting", "dropped"}
    /\ loopRunning
    /\ brokerUp
    /\ connState' = "connected"
    /\ lastConnect' = IF connState = "dropped" THEN "reconnect" ELSE "first"
    /\ ocPc' = "next"
    /\ ocSize' = Cardinality(DOMAIN subscriptions)
    /\ ocDone' = {}
    /\ ocItem' = NoItem
    /\ UNCHANGED <<topic_prefix, subscriptions, callbacks, brokerSubs,
                   loopRunning, atexitRegs, sent, outQueue, ioRaised, brokerUp>>
    /\ UNCHANGED <<appVars, gmcVars, wsVars, wbVars, kchVars, hsVars, wtVars>>

\* line 143, one step of the iterator: a dict whose size is not the one the
\* iterator was made with raises RuntimeError, which leaves _on_connect and
\* ends the loop thread; otherwise the next entry is read, or the loop is over
\* and paho sends what it had queued.
OcNext ==
    /\ ocPc = "next"
    /\ IF Cardinality(DOMAIN subscriptions) # ocSize
       THEN /\ ioRaised' = "RuntimeError"
            /\ loopRunning' = FALSE
            /\ ocPc' = "idle"
            /\ ocItem' = NoItem
            /\ UNCHANGED <<ocDone, sent, outQueue>>
       ELSE IF DOMAIN subscriptions \ ocDone = {}
       THEN /\ ocPc' = "idle"
            /\ ocItem' = NoItem
            /\ sent' = sent \cup {outQueue[i] : i \in DOMAIN outQueue}
            /\ outQueue' = <<>>
            /\ UNCHANGED <<ocDone, ioRaised, loopRunning>>
       ELSE /\ \E t \in DOMAIN subscriptions \ ocDone :
                 /\ ocItem' = [topic |-> t, callback |-> subscriptions[t]]
                 /\ ocDone' = ocDone \cup {t}
            /\ ocPc' = "sub"
            /\ UNCHANGED <<sent, outQueue, ioRaised, loopRunning>>
    /\ UNCHANGED <<topic_prefix, subscriptions, callbacks, brokerSubs, connState,
                   atexitRegs, brokerUp, lastConnect, ocSize>>
    /\ UNCHANGED <<appVars, gmcVars, wsVars, wbVars, kchVars, hsVars, wtVars>>

\* line 144: self._subscribe(topic, callback) with the pair read at line 143
OcSubscribe ==
    /\ ocPc = "sub"
    /\ LET st == SubscribeInner(PahoState(CanSend), ocItem.topic, ocItem.callback)
       IN /\ callbacks' = st.callbacks
          /\ brokerSubs' = st.brokerSubs
    /\ ocPc' = "next"
    /\ UNCHANGED <<topic_prefix, subscriptions, connState, loopRunning,
                   atexitRegs, sent, outQueue, ioRaised, brokerUp, lastConnect>>
    /\ UNCHANGED <<ocSize, ocDone, ocItem>>
    /\ UNCHANGED <<appVars, gmcVars, wsVars, wbVars, kchVars, hsVars, wtVars>>

\* The loop thread notices a lost connection when it is not inside a callback
RaceDrop ==
    /\ ocPc = "idle"
    /\ IoDrop

InitRace ==
    /\ ClientEstablished
    /\ brokerUp
    /\ AppIdle
    /\ GmcIdle
    /\ fetchNo = 0
    /\ WsIdle
    /\ WbIdle
    /\ OcIdle
    /\ KchIdle
    /\ HsIdle
    /\ WtIdle

NextRace ==
    \/ ApiSubscribe
    \/ ApiUnsubscribe
    \/ OcBegin
    \/ OcNext
    \/ OcSubscribe
    \/ RaceDrop

SpecRace == InitRace /\ [][NextRace]_vars

\* _on_connect is not running
ResubscriptionDone == ocPc = "idle" /\ lastConnect # None

----------------------------------------------------------------------------
\* Properties of the resubscription race (SpecRace)

\* C21: _on_connect never finds the map changed under its iteration, and when
\* it is not running on a live connection, having run at least once, the
\* topics registered with paho and subscribed at the broker are exactly the
\* tracked ones.
C21_ResubscriptionIsExclusive ==
    /\ ioRaised # "RuntimeError"
    /\ (ResubscriptionDone /\ IsConnected)
          => /\ DOMAIN callbacks = DOMAIN subscriptions
             /\ brokerSubs = DOMAIN subscriptions

\* C36: whenever _on_connect is not running, the topics with a callback
\* registered on the paho client are exactly the tracked ones, each with the
\* tracked callback.
C36_RegistryEqualsSubscriptions ==
    ocPc = "idle" => callbacks = subscriptions

----------------------------------------------------------------------------
\* Properties of KCHDaemonConsumer (SpecKch)

\* C32: after a kchd payload that is not valid JSON the handler has raised
\* nothing, no KCH info is stored by it and the consumer is not halted.
C32_BadJsonKchdIsDropped ==
    kchLast = "badjson" =>
        /\ kchRaised = None
        /\ kch_info = None
        /\ ~kchHalted

----------------------------------------------------------------------------
\* Properties of the MQTTClient API (Spec)

C7_PublishDisconnectedIsDropped ==
    [][/\ (ApiPublish /\ ~IsConnected) =>
            /\ raised' = None
            /\ sent' = sent
            /\ outQueue' = outQueue
            /\ subscriptions' = subscriptions
       /\ IoOnConnect => sent' = sent]_vars

\* C7 witness: publish was called while disconnected, the client connected
\* afterwards and the broker has seen nothing.
C7_Witness ==
    /\ lastOp.op = "publish"
    /\ ~lastOp.connected
    /\ raised = None
    /\ connState = "connected"
    /\ sent = {}
    /\ outQueue = <<>>

\* C15: connect called on a connected client changes nothing of the client: no
\* new connection attempt, no second loop, no second exit handler, the
\* tracked subscriptions as they were, and nothing raised.
C15_ConnectWhenConnectedIsNoOp ==
    [][(ApiConnect /\ IsConnected) =>
          /\ UNCHANGED clientVars
          /\ raised' = None]_vars

\* C15 witness: connect was called on a connected client, which still has its
\* one loop, its one exit handler and a tracked subscription
C15_Witness ==
    /\ lastOp.op = "connect"
    /\ lastOp.connected
    /\ connState = "connected"
    /\ loopRunning
    /\ atexitRegs = 1
    /\ subscriptions # EmptyMap

\* The last API call was a connect that failed with an exception connect
\* catches
FailedConnectLast ==
    /\ lastOp.op = "connect"
    /\ ~lastOp.connected
    /\ lastOp.topic \in ConnectCaught

\* A connect that fails with a caught exception raises nothing and starts no
\* loop, registers no exit handler and leaves the connection state as it was
FailedConnectChangesNothing ==
    \A outcome \in ConnectCaught :
        (~IsConnected /\ Connect(outcome) /\ Called("connect", outcome)) =>
            /\ raised' = None
            /\ loopRunning' = loopRunning
            /\ atexitRegs' = atexitRegs
            /\ connState' = connState
            /\ subscriptions' = subscriptions

\* C16 as claimed: a failed connect changes nothing, and from then on the
\* client is not connected until connect is called again.
C16_FailedConnectStaysDisconnected ==
    [][/\ FailedConnectChangesNothing
       /\ (FailedConnectLast /\ ~ApiConnect) => ~IsConnected']_vars

\* C16 as amended: a failed connect changes nothing, and a client that has no
\* I/O loop running (none was started by an earlier successful connect)
\* stays without a loop and disconnected until connect is called again.
C16_FailedConnectIsAbandoned ==
    [][/\ FailedConnectChangesNothing
       /\ (~loopRunning /\ ~IsConnected /\ ~ApiConnect) =>
             (~loopRunning' /\ ~IsConnected')]_vars

\* C16 witness: connect failed, the broker became reachable afterwards, and
\* the client still has no loop, no exit handler and no connection
C16_Witness ==
    /\ FailedConnectLast
    /\ raised = None
    /\ brokerUp
    /\ ~loopRunning
    /\ atexitRegs = 0
    /\ connState = "new"

\* C17: subscribe(topic, callback, override_prefix) tracks the callback under
\* prefix/topic when a prefix is set and override_prefix is false, under the
\* bare topic otherwise, registers it with paho under that topic and, on a
\* live connection, subscribes that topic at the broker.
C17_SubscribeTracksFullTopic ==
    [][\A t \in ApiTopics, cb \in ApiCallbacks, ov \in BOOLEAN :
         (Subscribe(t, cb, ov) /\ Called("subscribe", t)) =>
            LET full == IF topic_prefix # NoPrefix /\ ~ov
                        THEN topic_prefix \o "/" \o t ELSE t
            IN /\ full \in DOMAIN subscriptions'
               /\ subscriptions'[full] = cb
               /\ DOMAIN subscriptions' = DOMAIN subscriptions \cup {full}
               /\ full \in DOMAIN callbacks'
               /\ callbacks'[full] = cb
               /\ CanSend => full \in brokerSubs'
               /\ brokerSubs' \subseteq brokerSubs \cup {full}]_vars

\* C17 witness: with the empty prefix configured, a subscribe without override
\* is tracked and subscribed at the broker under "/topic", and one with
\* override under the bare topic
C17_Witness ==
    /\ lastOp.op = "subscribe"
    /\ topic_prefix = ""
    /\ connState = "connected"
    /\ ("/" \o lastOp.topic) \in DOMAIN subscriptions
    /\ ("/" \o lastOp.topic) \in brokerSubs
    /\ ("/" \o lastOp.topic) \notin DOMAIN lastOp.before
    /\ \E t \in ApiTopics : t \in DOMAIN subscriptions

C19_UnsubscribeRemovesOnlyTopic ==
    [][\A t \in ApiUnsubTopics :
         (Unsubscribe(t) /\ Called("unsubscribe", t)) =>
            /\ raised' = None
            /\ DOMAIN subscriptions' = DOMAIN subscriptions \ {t}
            /\ \A u \in DOMAIN subscriptions' : subscriptions'[u] = subscriptions[u]
            /\ DOMAIN callbacks' = DOMAIN callbacks \ {t}
            /\ \A u \in DOMAIN callbacks' : callbacks'[u] = callbacks[u]
            /\ t \notin DOMAIN subscriptions => subscriptions' = subscriptions]_vars

\* C19 witness: unsubscribe was called for a topic that was not tracked while
\* another topic was, and nothing was raised or removed
C19_Witness ==
    /\ lastOp.op = "unsubscribe"
    /\ lastOp.topic \notin DOMAIN lastOp.before
    /\ lastOp.before # EmptyMap
    /\ subscriptions = lastOp.before
    /\ raised = None

\* C33: for every prefix configuration and every topic the caller gives, the
\* full topic publish(t) resolves t to is the one subscribe(t) tracks, and
\* after unsubscribe(t) the full topic subscribe(t) tracks is not tracked.
C33_TopicResolutionAgrees ==
    /\ (lastOp.op = "publish" /\ lastOp.topic \in ApiTopics)
          => PublishTopic(lastOp.topic, TRUE) = FullTopic(lastOp.topic, FALSE)
    /\ (lastOp.op = "unsubscribe" /\ lastOp.topic \in ApiTopics)
          => FullTopic(lastOp.topic, FALSE) \notin DOMAIN subscriptions

----------------------------------------------------------------------------
\* Properties of GetMetadataConsumer.get_metadata (SpecFetch)

RunningPayloads == {p \in Payloads : LoadsError(p) = None /\ ParseError(p) = None
                                      /\ Parsed(p).status = "RUNNING"}

\* C1: when get_metadata has returned, the tracked subscriptions are exactly
\* those tracked when it was called.
C1_FetchRestoresSubscriptions ==
    gmPc = "done" => subscriptions = subsBefore

\* C2: when one of the two topics delivered a RUNNING status within the budget
\* and the other delivered nothing, get_metadata returns the delivered
\* payload in that topic's slot and the default in the other slot.
C2_OneTopicDelivered ==
    gmPc = "done" =>
        /\ (/\ seen["astmetad"].budget \cap RunningPayloads # {}
            /\ seen["astprocd"].all = {})
           => /\ gmResult.metadata \in
                    {Parsed(p).metadata : p \in seen["astmetad"].all}
              /\ gmResult.path = DefaultPath
        /\ (/\ seen["astprocd"].budget \cap {"running1", "running2"} # {}
            /\ seen["astmetad"].all = {})
           => /\ gmResult.path \in
                    {Parsed(p).disk_info : p \in seen["astprocd"].all}
              /\ gmResult.metadata = DefaultMetadata

\* C4: a payload that is not valid JSON leaves the completion event and the
\* stored message of the handler it reaches as they were, in every state the
\* consumer can be in; and when a topic delivered nothing but such payloads,
\* get_metadata returns the default for that topic and raises nothing.
C4_MalformedJsonIsDropped ==
    /\ \A p \in NotJson :
          /\ HandleAstmetad(Consumer, p).c = Consumer
          /\ HandleAstprocd(Consumer, p).c = Consumer
    /\ gmPc = "done" =>
          /\ raised = None
          /\ seen["astmetad"].all \subseteq NotJson
                => gmResult.metadata = DefaultMetadata
          /\ seen["astprocd"].all \subseteq NotJson
                => gmResult.path = DefaultPath

\* C4 witness: each topic delivered malformed JSON and nothing else, and the
\* fetch returned the defaults.
C4_Witness ==
    /\ gmPc = "done"
    /\ seen["astmetad"].budget = {"badjson"}
    /\ seen["astmetad"].all = {"badjson"}
    /\ seen["astprocd"].all = {"badjson"}
    /\ ~astmetad_received
    /\ ~astprocd_received
    /\ gmResult = [metadata |-> DefaultMetadata, path |-> DefaultPath]

\* C5: the consumer, run's return value and get_metadata's result are at every
\* moment those of the same fetch with the non-RUNNING status messages left
\* out of what the topics deliver.
C5_NotRunningIsNoMessage ==
    /\ twin.c = Consumer
    /\ gmPc \in {"unsub_astmetad", "unsub_astprocd", "ran", "done"}
          => twin.metadata_received = metadata_received
    /\ gmPc = "done" => twin.result = gmResult

\* C5 witness: both topics delivered a non-RUNNING status within the budget
\* and the fetch returned what the fetch without them returns.
C5_Witness ==
    /\ gmPc = "done"
    /\ seen["astmetad"].budget = {"stopped"}
    /\ seen["astprocd"].budget = {"stopped"}
    /\ twin.c = NewConsumer
    /\ ~metadata_received
    /\ gmResult = [metadata |-> DefaultMetadata, path |-> DefaultPath]

\* The path get_metadata takes from a stored astprocd message (lines 121-122)
PathOf(m) == IF m.disk_info # None THEN m.disk_info ELSE DefaultPath

\* C23: within one fetch, a stored message that is already there is not
\* changed by a later message: each topic's stored result is written once.
C23_StoredResultWrittenOnce ==
    [][Fetching =>
         /\ metadata_message # NoMessage => metadata_message' = metadata_message
         /\ proc_message # NoMessage => proc_message' = proc_message]_vars

\* C24: when get_metadata has returned, every topic that delivered a RUNNING
\* status before run's last wait returned has one of its RUNNING payloads in
\* its slot of the result, whatever the other topic did.
C24_DeliveredWithinBudgetIsCaptured ==
    gmPc = "done" =>
        /\ seen["astmetad"].budget \cap RunningPayloads # {}
           => gmResult.metadata \in
                 {Parsed(p).metadata :
                     p \in seen["astmetad"].all \cap RunningPayloads}
        /\ seen["astprocd"].budget \cap RunningPayloads # {}
           => gmResult.path \in
                 {PathOf(Parsed(p)) :
                     p \in seen["astprocd"].all \cap RunningPayloads}

\* C25: run(timeout=T) waits at most T in all, for every arrival pattern, and
\* no waiting time passes once both completion events are set.
C25_RunWaitsAtMostTimeout ==
    /\ [](elapsed <= TimeoutTicks)
    /\ [][GmcTick => ~(astmetad_received /\ astprocd_received)]_vars

\* C25 witness: astmetad delivered nothing in its half, astprocd nothing in
\* the other half, and get_metadata returned after exactly T of waiting
C25_Witness ==
    /\ gmPc = "done"
    /\ ~astmetad_received
    /\ ~astprocd_received
    /\ elapsed = TimeoutTicks

\* C26: get_metadata raises nothing to its caller, with or without a
\* connection; when it has returned, both slots of the result hold a value, a
\* topic that delivered no RUNNING status has the default in its slot, and a
\* run that timed out gives both defaults.
C26_GetMetadataNeverRaises ==
    /\ (Fetching \/ gmPc = "done") => raised = None
    /\ gmPc = "done" =>
          /\ gmResult.metadata # None
          /\ gmResult.path # None
          /\ seen["astmetad"].all \cap RunningPayloads = {}
             => gmResult.metadata = DefaultMetadata
          /\ seen["astprocd"].all \cap RunningPayloads = {}
             => gmResult.path = DefaultPath
          /\ ~metadata_received
             => gmResult = [metadata |-> DefaultMetadata, path |-> DefaultPath]

\* C26 witness: one topic delivered a payload that does not fit the schema,
\* the other one that is not JSON, run timed out and the defaults came back
C26_Witness ==
    /\ gmPc = "done"
    /\ seen["astmetad"].all = {"invalid"}
    /\ seen["astprocd"].all = {"badjson"}
    /\ elapsed = TimeoutTicks
    /\ raised = None
    /\ gmResult = [metadata |-> DefaultMetadata, path |-> DefaultPath]

----------------------------------------------------------------------------
\* Properties of concurrent wait_broadcast calls (SpecWaiters)

\* C35: every event _handle_broadcast has put is either still in the queue
\* or was returned by exactly one wait_broadcast call: as often as an event
\* was put, so often it is in the queue or in what the threads were returned.
C35_EachEventReturnedOnce ==
    \A p \in BcPayloads :
        EventOf(p) # NoEvent =>
            Count(wtPut, EventOf(p))
              = Count(eventQueue, EventOf(p))
                + Count(wtGot["w1"], EventOf(p))
                + Count(wtGot["w2"], EventOf(p))

\* C35 witness: three events were put, each of the two threads was returned
\* one of them, not the same one, and the third is still queued
C35_Witness ==
    /\ Len(wtPut) = 3
    /\ Len(wtGot["w1"]) = 1
    /\ Len(wtGot["w2"]) = 1
    /\ wtGot["w1"] # wtGot["w2"]
    /\ Len(eventQueue) = 1

----------------------------------------------------------------------------
\* Properties of the GetMetadataConsumer handlers (SpecSignal)

\* C34: in every state, between the statements of a handler as well, a set
\* completion event has its topic's message stored; and a get_metadata that
\* run told of a received message finds the astprocd message.
C34_EventSetImpliesMessageStored ==
    /\ astmetad_received => metadata_message # NoMessage
    /\ astprocd_received => proc_message # NoMessage
    /\ (gmPc \in {"unsub_astmetad", "unsub_astprocd", "ran", "done"}
           /\ metadata_received)
          => proc_message # NoMessage

\* C34 witness: a handler stands between its two statements, the message is
\* stored and the event is not set yet, while run waits for that event
C34_Witness ==
    /\ hsPc = "second"
    /\ gmPc = "wait_astmetad"
    /\ metadata_message # NoMessage
    /\ ~astmetad_received

----------------------------------------------------------------------------
\* Properties of Robot.wait_start (SpecStart, FairSpecStart)

\* C3: when wait_start has returned, the broadcast topic its consumer
\* subscribed is no longer tracked and has no callback registered.
C3_StartSubscriptionClosed ==
    wsPc = "returned" =>
        /\ FullTopic(StartTopic, FALSE) \notin DOMAIN subscriptions
        /\ FullTopic(StartTopic, FALSE) \notin DOMAIN callbacks

\* C8: once the start event is set or the button is down, the loop begins at
\* most one more sleep (one poll interval) before it ends, whichever of the
\* two came first and whether or not the other one ever comes.
C8_LoopEndsWithinOnePoll ==
    /\ sleepsAfterTrigger <= 1
    /\ (wsPc \in {"check", "body"} /\ sleepsAfterTrigger = 1)
          => (start_event \/ buttonLatch) /\ wsPc = "check"

\* C8 witness: the broadcast set the event while the loop was about to sleep,
\* the button was never pressed, and the loop ended after that one sleep.
C8_Witness ==
    /\ wsPc = "close"
    /\ exitBy = "event"
    /\ sleepsAfterTrigger = 1
    /\ ~buttonLatch

\* C9: from the moment wait_start has set the indicators after its loop, the
\* run LED is on and the KCH start LED is off.
C9_IndicatorsStarted ==
    wsPc \in {"reload", "reloading", "returned"} => runLed /\ ~kchStart

\* C9 witness: the loop ended in a blink phase with both LEDs lit, and
\* wait_start returned with the run LED on and the KCH start LED off.
C9_Witness ==
    /\ wsPc = "returned"
    /\ led_state
    /\ runLed
    /\ ~kchStart

\* C10: with the broker unreachable and the start button eventually pressed,
\* wait_start returns.
C10_UnreachableBrokerStillStarts ==
    (~brokerUp /\ wsPc = "idle") ~> (wsPc = "returned")

\* C10 witness: wait_start returned on the button with no connection ever made.
C10_Witness ==
    /\ wsPc = "returned"
    /\ ~brokerUp
    /\ connState = "new"
    /\ exitBy = "button"
    /\ gmResult = [metadata |-> DefaultMetadata, path |-> DefaultPath]

\* wait_start has left its wait loop
LeftLoop ==
    wsPc \in {"close", "indicators", "reload", "reloading", "returned", "killed"}

\* C22: whenever wait_start has left its wait loop, through the broadcast or
\* through the start button, the shared start event is set.
C22_ExitSetsStartEvent == LeftLoop => start_event

\* C29: the wait loop is left only on a pressed button or on a start event
\* that a parsed start-button broadcast set: the event is set only when a
\* parsed event was queued, and an exit that is not the button's found the
\* event set.
C29_NoSpuriousExit ==
    /\ start_event => Len(eventQueue) > 0
    /\ LeftLoop => \/ exitBy = "button"
                   \/ exitBy = "event" /\ start_event /\ Len(eventQueue) > 0

\* C29 witness: a broadcast payload that does not fit the schema was
\* delivered, the event stayed unset, and the wait ended on the button
C29_Witness ==
    /\ wsPc = "returned"
    /\ ioRaised = "ValidationError"
    /\ ~start_event
    /\ eventQueue = <<>>
    /\ exitBy = "button"

\* C30: once the start event is set it stays set, and a broadcast that arrives
\* with the event already set leaves the event, the position of wait_start
\* and the way its loop ended as they were.
C30_StartEventIsSetOnce ==
    [][/\ start_event => start_event'
       /\ (StartDeliverBroadcast /\ start_event) =>
             /\ start_event'
             /\ wsPc' = wsPc
             /\ exitBy' = exitBy
             /\ sleepsAfterTrigger' = sleepsAfterTrigger]_vars

\* C30 witness: two start-button events were queued, the second one with the
\* event already set, and wait_start returned on the event
C30_Witness ==
    /\ wsPc = "returned"
    /\ exitBy = "event"
    /\ start_event
    /\ Len(eventQueue) = 2

\* C31: the kill timer is not armed before wait_start has got the start
\* signal and reloaded the metadata; once wait_start has returned it is armed
\* exactly when the reloaded game_timeout is not None, with that delay; and
\* the process is ended by SystemExit only by an armed timer.
C31_KillTimerArmedIffGameTimeout ==
    /\ wsPc \notin {"returned", "killed"} => killTimer = NoTimer
    /\ wsPc \in {"returned", "killed"} =>
          /\ killTimer.armed <=> HasGameTimeout(gmResult.metadata)
          /\ killTimer.armed => killTimer.delay = GameTimeout(gmResult.metadata)
    /\ wsPc = "killed" => killTimer.armed /\ raised = "SystemExit"

----------------------------------------------------------------------------
\* Properties of BroadcastHelper (SpecBroadcast)

\* C27: every message send has published carries an event named after the
\* schema and stamped with the client's name, on the topic the helper's own
\* subscription is tracked under.
C27_SendReachesOwnTopic ==
    \A m \in sent :
        /\ EventOf(m[2]).event_name = SchemaName
        /\ EventOf(m[2]).sender_name = ClientName
        /\ m[1] \in DOMAIN HelperSubscribed

\* C11: the event wait_broadcast returns has a minimal ordering key among the
\* events that were queued when it returned: no queued event's key is less.
C11_ReturnsMinimalKey ==
    wbResult # NoEvent =>
        \A i \in DOMAIN wbSaw.queue : ~EventLess(wbSaw.queue[i], wbResult)

\* C11 witness: an event was returned ahead of an event that was inserted
\* before it and has a greater key
C11_Witness ==
    /\ wbResult # NoEvent
    /\ \E i, j \in DOMAIN wbSaw.pending :
          /\ i < j
          /\ wbSaw.pending[j] = wbResult
          /\ EventLess(wbResult, wbSaw.pending[i])

\* C12: among the queued events whose ordering key equals that of the event
\* wait_broadcast returns, the returned one was inserted first.
C12_TiesAreFifo ==
    wbResult # NoEvent =>
        \A i \in DOMAIN wbSaw.pending :
            (wbSaw.pending[i].priority = wbResult.priority
             /\ \A k \in 1..(i - 1) :
                    wbSaw.pending[k].priority # wbResult.priority)
            => wbSaw.pending[i] = wbResult

\* C13: wait_broadcast(timeout) returns a queued event whenever the queue holds
\* one; it raises queue.Empty only when the queue is empty and the timeout has
\* run out, and then leaves the queue as it was.
C13_TimeoutRaisesEmpty ==
    [][(wbPc = "get" /\ wbPc' = "idle") =>
         IF Len(eventQueue) > 0
         THEN /\ wbRaised' = None
              /\ \E i \in DOMAIN eventQueue : wbResult' = eventQueue[i]
              /\ Len(eventQueue') = Len(eventQueue) - 1
         ELSE /\ wbTimed
              /\ wbLeft = 0
              /\ wbRaised' = "Empty"
              /\ wbResult' = NoEvent
              /\ eventQueue' = eventQueue]_vars

\* C13 witness: a wait_broadcast with a timeout that started on an empty queue
\* has raised queue.Empty after its timeout ran out, with an event delivered
\* only afterwards
C13_Witness ==
    /\ wbPc = "idle"
    /\ wbRaised = "Empty"
    /\ wbTimed
    /\ wbLeft = 0
    /\ wbCalls = 1
    /\ Len(eventQueue) = 1

\* C14: a payload that is JSON but does not fit the event schema is dropped by
\* _handle_broadcast without an exception on the I/O thread: no
\* ValidationError ever escapes the handler.
C14_InvalidEventIsDropped == ioRaised # "ValidationError"

\* C20: a thread that is inside wait_broadcast or inside the consumer's run
\* always comes back from it.
C20_WaitsAreBounded == (wbPc # "idle") ~> (wbPc = "idle")

====
